---- MODULE Spec2Model ----
(***************************************************************************)
(* A model of the SEO keyword analyzer: the heuristic scorer of the        *)
(* analyze route (generateSEOAnalysis, extractCleanKeywords,               *)
(* calculateReadingTime), the POST handlers of the three route variants,   *)
(* and the submit handler of the page.                                     *)
(*                                                                         *)
(* A string is a sequence of one-character strings, so that length,        *)
(* case, punctuation and whitespace are what they are in the program.      *)
(***************************************************************************)
EXTENDS Integers, Sequences, FiniteSets, TLC

----------------------------------------------------------------------------
(* Characters and the character classes of the regular expressions.        *)

UpperSeq ==
  <<"A","B","C","D","E","F","G","H","I","J","K","L","M","N","O","P","Q","R","S","T","U","V",
    "W","X","Y","Z">>

LowerSeq ==
  <<"a","b","c","d","e","f","g","h","i","j","k","l","m","n","o","p","q","r","s","t","u","v",
    "w","x","y","z">>

UpperSet == {UpperSeq[i] : i \in 1..26}

LowerSet == {LowerSeq[i] : i \in 1..26}

DigitSet == {"0","1","2","3","4","5","6","7","8","9"}

\* String.prototype.toLowerCase on one character.
LowerOf == [c \in UpperSet |-> LowerSeq[CHOOSE i \in 1..26 : UpperSeq[i] = c]]

SpaceSet == {" ", "\t", "\n", "\r"}

WordCharSet == UpperSet \cup LowerSet \cup DigitSet \cup {"_"}

\* \s
IsSpace(c) == c \in SpaceSet

\* \w
IsWordChar(c) == c \in WordCharSet

\* \d
IsDigit(c) == c \in DigitSet

toLowerCase(s) == [i \in 1..Len(s) |-> IF s[i] \in UpperSet THEN LowerOf[s[i]] ELSE s[i]]

\* String.prototype.repeat
RECURSIVE repeat(_, _)
repeat(s, n) == IF n <= 0 THEN << >> ELSE s \o repeat(s, n - 1)

----------------------------------------------------------------------------
(* The fixed text of the program.                                          *)

stopWords ==
  {<<"t","h","e">>,
   <<"a","n","d">>,
   <<"f","o","r">>,
   <<"a","r","e">>,
   <<"b","u","t">>,
   <<"n","o","t">>,
   <<"y","o","u">>,
   <<"a","l","l">>,
   <<"c","a","n">>,
   <<"h","e","r">>,
   <<"w","a","s">>,
   <<"o","n","e">>,
   <<"o","u","r">>,
   <<"h","a","d">>,
   <<"w","i","l","l">>,
   <<"w","h","a","t">>,
   <<"y","o","u","r">>,
   <<"w","h","e","n">>,
   <<"h","i","m">>,
   <<"w","i","t","h">>,
   <<"h","a","s">>,
   <<"t","h","i","s">>,
   <<"t","h","a","t">>,
   <<"f","r","o","m">>,
   <<"t","h","e","y">>,
   <<"h","a","v","e">>,
   <<"m","o","r","e">>,
   <<"b","e","e","n">>,
   <<"w","e","r","e">>,
   <<"s","a","i","d">>,
   <<"e","a","c","h">>,
   <<"w","h","i","c","h">>,
   <<"t","h","e","i","r">>,
   <<"t","i","m","e">>,
   <<"i","n","t","o">>,
   <<"t","h","a","n">>,
   <<"o","n","l","y">>,
   <<"c","o","m","e">>,
   <<"s","o","m","e">>,
   <<"v","e","r","y">>,
   <<"a","f","t","e","r">>,
   <<"b","a","c","k">>,
   <<"o","t","h","e","r">>,
   <<"m","a","n","y">>,
   <<"t","h","e","m">>,
   <<"t","h","e","s","e">>,
   <<"m","a","y">>,
   <<"f","i","r","s","t">>,
   <<"w","e","l","l">>,
   <<"w","o","r","k">>,
   <<"g","e","t">>,
   <<"m","a","k","e">>,
   <<"a","b","o","u","t">>,
   <<"c","o","n","t","a","c","t">>,
   <<"h","o","m","e">>,
   <<"p","a","g","e">>,
   <<"w","e","b","s","i","t","e">>,
   <<"m","e","n","u">>,
   <<"t","o","g","g","l","e">>,
   <<"c","l","i","c","k">>,
   <<"h","e","r","e">>,
   <<"n","o","w">>,
   <<"t","o","d","a","y">>}

TitlePrefix ==
  <<"B","e","s","t"," ">>

TitleSuffix ==
  <<" ","G","u","i","d","e"," ","f","o","r"," ","2","0","2","5">>

MetaPrefix ==
  <<"D","i","s","c","o","v","e","r"," ","e","v","e","r","y","t","h","i","n","g"," ","y","o",
    "u"," ","n","e","e","d"," ","t","o"," ","k","n","o","w"," ","a","b","o","u","t"," ">>

MetaSuffix ==
  <<"."," ","E","x","p","e","r","t"," ","t","i","p","s",","," ","s","t","r","a","t","e","g",
    "i","e","s",","," ","a","n","d"," ","i","n","s","i","g","h","t","s"," ","t","o"," ","h",
    "e","l","p"," ","y","o","u"," ","s","u","c","c","e","e","d",".">>

ContentPrefix ==
  <<"T","h","i","s"," ","i","s"," ","a"," ","c","o","m","p","r","e","h","e","n","s","i","v",
    "e"," ","g","u","i","d","e"," ","a","b","o","u","t"," ">>

ContentSuffix ==
  <<"."," ","I","t"," ","c","o","v","e","r","s"," ","a","l","l"," ","t","h","e"," ","e","s",
    "s","e","n","t","i","a","l"," ","a","s","p","e","c","t","s"," ","a","n","d"," ","p","r",
    "o","v","i","d","e","s"," ","v","a","l","u","a","b","l","e"," ","i","n","s","i","g","h",
    "t","s",".">>

HeadingsPrefix ==
  <<"H","1","M","a","i","n">>

HeadingsSuffix ==
  <<"G","u","i","d","e","H","2","K","e","y","B","e","n","e","f","i","t","s","H","2","S","t",
    "r","a","t","e","g","i","e","s","H","3","A","d","v","a","n","c","e","d","T","i","p","s",
    "H","2","C","o","n","c","l","u","s","i","o","n">>

\* The own lower-case property names of Object.prototype: a plain object
\* used as a map (wordCount = {}) already answers for these keys.
ObjectPrototypeKeys ==
  {<<"c","o","n","s","t","r","u","c","t","o","r">>,
   <<"_","_","p","r","o","t","o","_","_">>}

----------------------------------------------------------------------------
(* JavaScript values whose type the program inspects: each is a record of  *)
(* its kind and its value. A string is a sequence of characters, an array  *)
(* a sequence, an object a record of its fields.                           *)

JsUndefined == [kind |-> "undefined", val |-> << >>]

JsNull == [kind |-> "null", val |-> << >>]

JsString(s) == [kind |-> "string", val |-> s]

JsNumber(n) == [kind |-> "number", val |-> n]

JsArray(items) == [kind |-> "array", val |-> items]

JsObject(fields) == [kind |-> "object", val |-> fields]

\* ToBoolean: undefined, null, the empty string and 0 are falsy.
Truthy(v) ==
  CASE v.kind = "undefined" -> FALSE
    [] v.kind = "null"      -> FALSE
    [] v.kind = "string"    -> Len(v.val) > 0
    [] v.kind = "number"    -> v.val # 0
    [] OTHER                -> TRUE

\* a || b
JsOr(a, b) == IF Truthy(a) THEN a ELSE b

\* A template literal `${pre}${v}${post}` of a string v.
Template(pre, v, post) == pre \o v.val \o post

----------------------------------------------------------------------------
(* String operations of the scorer.                                        *)

\* The positions 1..n of a string, as a sequence.
Positions(n) == [i \in 1..n |-> i]

\* s.replace(/[^\w\s]/g, " ")
ReplacePunctuation(s) ==
  [i \in 1..Len(s) |-> IF IsWordChar(s[i]) \/ IsSpace(s[i]) THEN s[i] ELSE " "]

\* s.replace(/\s+/g, " "): every maximal run of whitespace becomes one space.
CollapseWhitespace(s) ==
  LET kept == SelectSeq(Positions(Len(s)),
                        LAMBDA i : ~IsSpace(s[i]) \/ i = 1 \/ ~IsSpace(s[i - 1]))
  IN  [k \in 1..Len(kept) |-> IF IsSpace(s[kept[k]]) THEN " " ELSE s[kept[k]]]

\* s.trim()
Trim(s) ==
  LET n     == Len(s)
      first == CHOOSE i \in 1..(n + 1) :
                 /\ i = n + 1 \/ ~IsSpace(s[i])
                 /\ \A j \in 1..(i - 1) : IsSpace(s[j])
      last  == CHOOSE i \in 0..n :
                 /\ i = 0 \/ ~IsSpace(s[i])
                 /\ \A j \in (i + 1)..n : IsSpace(s[j])
  IN  IF first > last THEN << >> ELSE SubSeq(s, first, last)

\* s.split(" "): the pieces between the single spaces, empty pieces included;
\* the empty string splits into one empty piece.
SplitOnSpace(s) ==
  LET n      == Len(s)
      starts == SelectSeq(Positions(n + 1), LAMBDA i : i = 1 \/ s[i - 1] = " ")
      ends   == SelectSeq(Positions(n + 1), LAMBDA i : i = n + 1 \/ s[i] = " ")
  IN  [k \in 1..Len(starts) |-> SubSeq(s, starts[k], ends[k] - 1)]

\* text.split(/\s+/).length: the pieces between the maximal runs of
\* whitespace, the empty pieces at either end included.
SplitWhitespaceLength(text) ==
  Cardinality({i \in 1..Len(text) :
                 IsSpace(text[i]) /\ (i = 1 \/ ~IsSpace(text[i - 1]))}) + 1

DigitSeq == <<"0","1","2","3","4","5","6","7","8","9">>

\* String(n) of a natural number.
RECURSIVE DecimalString(_)
DecimalString(n) ==
  IF n < 10 THEN <<DigitSeq[n + 1]>>
  ELSE DecimalString(n \div 10) \o <<DigitSeq[(n % 10) + 1]>>

\* new Date().toISOString() at time t: the times of the model are the
\* ticks of the clock, and a later tick gives another string.
toISOString(t) == <<"T">> \o DecimalString(t)

\* Math.ceil(a / b) for a >= 0, b > 0.
MathCeilDiv(a, b) == IF a % b = 0 THEN a \div b ELSE (a \div b) + 1

MathMin(a, b) == IF a <= b THEN a ELSE b

wordsPerMinute == 200

calculateReadingTime(text) ==
  MathCeilDiv(SplitWhitespaceLength(text), wordsPerMinute)

----------------------------------------------------------------------------
(* extractCleanKeywords                                                    *)

MinKeywordLength == 3

MaxKeywordLength == 20

MinFrequency == 2

MaxKeywords == 15

HighAbove == 5

MediumAbove == 3

\* word.match(/^\d+$/)
IsPureNumber(word) == Len(word) > 0 /\ \A i \in 1..Len(word) : IsDigit(word[i])

\* The filter with a lower bound of three characters.
IsMeaningful_FromThree(word) ==
  /\ Len(word) >= MinKeywordLength
  /\ Len(word) < MaxKeywordLength
  /\ word \notin stopWords
  /\ ~IsPureNumber(word)

\* The filter of line 88-90.
IsMeaningful(word) ==
  /\ Len(word) > MinKeywordLength
  /\ Len(word) < MaxKeywordLength
  /\ word \notin stopWords
  /\ ~IsPureNumber(word)

cleanText(text) == Trim(CollapseWhitespace(ReplacePunctuation(toLowerCase(text))))

\* The tags with "High" from a count of 5 on.
importanceOf_HighFromFive(count) ==
  IF count >= HighAbove THEN "High" ELSE IF count > MediumAbove THEN "Medium" ELSE "Low"

importanceOf(count) ==
  IF count > HighAbove THEN "High" ELSE IF count > MediumAbove THEN "Medium" ELSE "Low"

\* A filter that keeps every counted word: count >= 1 for count >= 2.
PassesFrequency_AtLeastOnce(word, count) ==
  word \notin ObjectPrototypeKeys /\ count >= 1

\* The entries that pass .filter(count >= 2): wordCount[word] of a word that
\* names a property of Object.prototype is not a number (the inherited value
\* plus 1 is a string, and "__proto__" is never stored), so it never passes.
PassesFrequency(word, count) ==
  word \notin ObjectPrototypeKeys /\ count >= MinFrequency

\* The words of the cleaned text that pass the filter (lines 88-90).
meaningfulWords(text) == SelectSeq(SplitOnSpace(cleanText(text)), IsMeaningful)

\* The positions at which a word occurs for the first time.
FirstOccurrences(words) ==
  SelectSeq(Positions(Len(words)),
            LAMBDA k : ~\E j \in 1..(k - 1) : words[j] = words[k])

\* Object.entries(wordCount) after the counting loop (lines 93-99): the
\* distinct words, in the order of their first occurrence, each with the
\* number of its occurrences.
EntriesAt(words, firsts) ==
  [k \in 1..Len(firsts) |->
     [word  |-> words[firsts[k]],
      count |-> Len(SelectSeq(words, LAMBDA w : w = words[firsts[k]]))]]

wordCountEntries(words) == EntriesAt(words, FirstOccurrences(words))

\* .filter(([word, count]) => count >= 2)
FilterByFrequency(entries) ==
  SelectSeq(entries, LAMBDA e : PassesFrequency(e.word, e.count))

\* The place of the e-th entry after the sort.
RankOf(entries, e) ==
  Cardinality({d \in 1..Len(entries) :
                 \/ entries[d].count > entries[e].count
                 \/ entries[d].count = entries[e].count /\ d < e}) + 1

\* .sort(([, a], [, b]) => b - a): by count, descending; the sort is
\* stable, so entries of one count keep their order.
SortByCount(entries) ==
  [r \in 1..Len(entries) |->
     entries[CHOOSE e \in 1..Len(entries) : RankOf(entries, e) = r]]

\* .slice(0, n)
SliceFirst(s, n) == SubSeq(s, 1, MathMin(n, Len(s)))

\* .map(([word, count]) => ({keyword, frequency, importance}))
KeywordOf(entry) ==
  [keyword    |-> entry.word,
   frequency  |-> entry.count,
   importance |-> importanceOf(entry.count)]

extractCleanKeywords(text) ==
  LET kept == SliceFirst(SortByCount(FilterByFrequency(
                wordCountEntries(meaningfulWords(text)))), MaxKeywords)
  IN  [r \in 1..Len(kept) |-> KeywordOf(kept[r])]

----------------------------------------------------------------------------
(* generateSEOAnalysis                                                     *)

\* headings.split(/(?=[A-Z][a-z])/).filter(h => h.trim().length > 2).length:
\* a piece starts at the first character and before every upper-case letter
\* that a lower-case letter follows; a piece counts when more than two
\* characters remain once the whitespace at its ends is trimmed.
headingsCount(headings) ==
  LET n      == Len(headings)
      starts == SelectSeq(Positions(n),
                  LAMBDA i : \/ i = 1
                             \/ /\ i < n
                                /\ headings[i] \in UpperSet
                                /\ headings[i + 1] \in LowerSet)
      end(k) == IF k < Len(starts) THEN starts[k + 1] - 1 ELSE n
      long(k) == \E i \in starts[k]..end(k) :
                   /\ ~IsSpace(headings[i])
                   /\ \E j \in (i + 2)..end(k) : ~IsSpace(headings[j])
  IN  IF n = 0 THEN 0 ELSE Cardinality({k \in 1..Len(starts) : long(k)})

\* A title analysis whose best band starts above 30: len > 30 for len >= 30.
titleAnalysisOf_ExclusiveThirty(title) ==
  LET len == Len(title)
  IN  IF len = 0 THEN [length |-> len, status |-> "Missing", score |-> 0, feedback |-> << >>]
      ELSE IF len > 30 /\ len <= 60
      THEN [length |-> len, status |-> "Excellent", score |-> 25, feedback |-> << >>]
      ELSE IF len >= 20 /\ len < 30
      THEN [length |-> len, status |-> "Good", score |-> 15, feedback |-> << >>]
      ELSE IF len > 60
      THEN [length |-> len, status |-> "Too Long", score |-> 10, feedback |-> << >>]
      ELSE [length |-> len, status |-> "Too Short", score |-> 5, feedback |-> << >>]

\* Title Analysis (lines 162-194).
titleAnalysisOf(title) ==
  LET len == Len(title)
  IN  IF len > 0
      THEN IF len >= 30 /\ len <= 60
           THEN [length |-> len, status |-> "Excellent", score |-> 25,
                 feedback |-> <<"Perfect title length">>]
           ELSE IF len >= 20 /\ len < 30
           THEN [length |-> len, status |-> "Good", score |-> 15,
                 feedback |-> <<"Title could be longer for better SEO">>]
           ELSE IF len > 60
           THEN [length |-> len, status |-> "Too Long", score |-> 10,
                 feedback |-> <<"Title is too long, may be truncated in search results">>]
           ELSE [length |-> len, status |-> "Too Short", score |-> 5,
                 feedback |-> <<"Title is too short, add more descriptive words">>]
      ELSE [length |-> len, status |-> "Missing", score |-> 0,
            feedback |-> <<"Missing page title - this is critical for SEO">>]

\* A meta analysis whose best band ends below 160: len < 160 for len <= 160.
metaAnalysisOf_ExclusiveOneSixty(metaDescription) ==
  LET len == Len(metaDescription)
  IN  IF len = 0 THEN [length |-> len, status |-> "Missing", score |-> 0, feedback |-> << >>]
      ELSE IF len >= 120 /\ len < 160
      THEN [length |-> len, status |-> "Excellent", score |-> 20, feedback |-> << >>]
      ELSE IF len >= 100 /\ len < 120
      THEN [length |-> len, status |-> "Good", score |-> 12, feedback |-> << >>]
      ELSE IF len > 160
      THEN [length |-> len, status |-> "Too Long", score |-> 8, feedback |-> << >>]
      ELSE [length |-> len, status |-> "Too Short", score |-> 5, feedback |-> << >>]

\* Meta Description Analysis (lines 196-228).
metaAnalysisOf(metaDescription) ==
  LET len == Len(metaDescription)
  IN  IF len > 0
      THEN IF len >= 120 /\ len <= 160
           THEN [length |-> len, status |-> "Excellent", score |-> 20,
                 feedback |-> <<"Perfect meta description length">>]
           ELSE IF len >= 100 /\ len < 120
           THEN [length |-> len, status |-> "Good", score |-> 12,
                 feedback |-> <<"Meta description could be slightly longer">>]
           ELSE IF len > 160
           THEN [length |-> len, status |-> "Too Long", score |-> 8,
                 feedback |-> <<"Meta description may be truncated in search results">>]
           ELSE [length |-> len, status |-> "Too Short", score |-> 5,
                 feedback |-> <<"Meta description is too short">>]
      ELSE [length |-> len, status |-> "Missing", score |-> 0,
            feedback |-> <<"Missing meta description - add a compelling summary">>]

\* A content analysis whose best band starts above 1000 words.
contentAnalysisOf_ExclusiveThousand(contentText, readingTime) ==
  LET wordCount == SplitWhitespaceLength(contentText)
      base == [word_count |-> wordCount, character_count |-> Len(contentText),
               reading_time |-> readingTime, feedback |-> << >>]
  IN  IF Len(contentText) = 0 THEN base @@ [status |-> "Insufficient", score |-> 0]
      ELSE IF wordCount > 1000 THEN base @@ [status |-> "Excellent", score |-> 25]
      ELSE IF wordCount >= 500 THEN base @@ [status |-> "Good", score |-> 18]
      ELSE IF wordCount >= 300 THEN base @@ [status |-> "Fair", score |-> 12]
      ELSE base @@ [status |-> "Too Short", score |-> 5]

\* Content Analysis (lines 230-266).
contentAnalysisOf(contentText, readingTime) ==
  LET wordCount == SplitWhitespaceLength(contentText)
      base == [word_count |-> wordCount, character_count |-> Len(contentText),
               reading_time |-> readingTime]
  IN  IF Len(contentText) > 0
      THEN IF wordCount >= 1000
           THEN base @@ [status |-> "Excellent", score |-> 25,
                         feedback |-> <<"Great content length for SEO">>]
           ELSE IF wordCount >= 500
           THEN base @@ [status |-> "Good", score |-> 18,
                         feedback |-> <<"Good content length">>]
           ELSE IF wordCount >= 300
           THEN base @@ [status |-> "Fair", score |-> 12,
                         feedback |-> <<"Content length is acceptable but could be expanded">>]
           ELSE base @@ [status |-> "Too Short", score |-> 5,
                         feedback |-> <<"Content is too short, add more valuable information">>]
      ELSE base @@ [status |-> "Insufficient", score |-> 0,
                    feedback |-> <<"No content found on the page">>]

\* Keyword Analysis (lines 268-296).
keywordAnalysisOf(keywords) ==
  LET n == Len(keywords)
  IN  IF n >= 10
      THEN [total_keywords |-> n, status |-> "Excellent", score |-> 20,
            feedback |-> <<"Good keyword variety found">>]
      ELSE IF n >= 5
      THEN [total_keywords |-> n, status |-> "Good", score |-> 12,
            feedback |-> <<"Decent keyword coverage">>]
      ELSE IF n >= 2
      THEN [total_keywords |-> n, status |-> "Fair", score |-> 8,
            feedback |-> <<"Limited keyword variety">>]
      ELSE [total_keywords |-> n, status |-> "Poor", score |-> 0,
            feedback |-> <<"Very few meaningful keywords found">>]

\* A total that counts the bonus for each heading and is not capped.
overallScoreOf_Uncapped(titleScore, metaScore, contentScore, keywordScore, headings_count) ==
  titleScore + metaScore + contentScore + keywordScore + 10 * headings_count

\* A total without the bonus for the headings.
overallScoreOf_NoBonus(titleScore, metaScore, contentScore, keywordScore, headings_count) ==
  MathMin(titleScore + metaScore + contentScore + keywordScore, 100)

\* Math.min(totalScore, 100) (lines 298-302).
overallScoreOf(titleScore, metaScore, contentScore, keywordScore, headings_count) ==
  MathMin(titleScore + metaScore + contentScore + keywordScore
            + (IF headings_count > 0 THEN 10 ELSE 0), 100)

\* Grades whose second threshold is exclusive: score > 80 for score >= 80.
gradeOf_ExclusiveA(score) ==
  IF score >= 90 THEN [grade |-> "A+", status |-> "Excellent"]
  ELSE IF score > 80 THEN [grade |-> "A", status |-> "Very Good"]
  ELSE IF score >= 70 THEN [grade |-> "B", status |-> "Good"]
  ELSE IF score >= 60 THEN [grade |-> "C", status |-> "Fair"]
  ELSE IF score >= 50 THEN [grade |-> "D", status |-> "Poor"]
  ELSE [grade |-> "F", status |-> "Needs Immediate Attention"]

\* Determine grade and status (lines 304-324).
gradeOf(score) ==
  IF score >= 90 THEN [grade |-> "A+", status |-> "Excellent"]
  ELSE IF score >= 80 THEN [grade |-> "A", status |-> "Very Good"]
  ELSE IF score >= 70 THEN [grade |-> "B", status |-> "Good"]
  ELSE IF score >= 60 THEN [grade |-> "C", status |-> "Fair"]
  ELSE IF score >= 50 THEN [grade |-> "D", status |-> "Poor"]
  ELSE [grade |-> "F", status |-> "Needs Immediate Attention"]

Recommendation(priority, category, issue, solution, impact) ==
  [priority |-> priority, category |-> category, issue |-> issue,
   solution |-> solution, impact |-> impact]

\* A list with x when cond holds, the empty list otherwise.
PushIf(cond, x) == IF cond THEN <<x>> ELSE << >>

\* Recommendations whose title threshold is 15: titleScore < 15 for < 20.
recommendationsOf_TitleBelowFifteen(titleScore, metaScore, contentScore, keywordScore, headings_count) ==
  PushIf(titleScore < 15,
         Recommendation("High", "Title Optimization", "Page title needs improvement",
           "Create a compelling title between 30-60 characters that includes your main keyword",
           "High - Titles are crucial for search rankings and click-through rates"))
  \o
  PushIf(metaScore < 15,
         Recommendation("High", "Meta Description",
           "Meta description is missing or poorly optimized",
           "Write a compelling 120-160 character description that summarizes your page content",
           "Medium - Improves click-through rates from search results"))
  \o
  PushIf(contentScore < 20,
         Recommendation("Medium", "Content Quality", "Content length is insufficient",
           "Expand content to at least 500 words with valuable, relevant information",
           "High - More content gives search engines more context about your page"))
  \o
  PushIf(keywordScore < 15,
         Recommendation("Medium", "Keyword Optimization", "Limited keyword variety",
           "Include more relevant keywords naturally throughout your content",
           "Medium - Better keyword coverage helps with various search terms"))
  \o
  PushIf(headings_count < 3,
         Recommendation("Low", "Content Structure", "Insufficient heading structure",
           "Add more H1, H2, H3 headings to structure your content better",
           "Low - Improves readability and helps search engines understand content structure"))

\* Generate user-friendly recommendations (lines 326-383).
recommendationsOf(titleScore, metaScore, contentScore, keywordScore, headings_count) ==
  PushIf(titleScore < 20,
         Recommendation("High", "Title Optimization", "Page title needs improvement",
           "Create a compelling title between 30-60 characters that includes your main keyword",
           "High - Titles are crucial for search rankings and click-through rates"))
  \o
  PushIf(metaScore < 15,
         Recommendation("High", "Meta Description",
           "Meta description is missing or poorly optimized",
           "Write a compelling 120-160 character description that summarizes your page content",
           "Medium - Improves click-through rates from search results"))
  \o
  PushIf(contentScore < 20,
         Recommendation("Medium", "Content Quality", "Content length is insufficient",
           "Expand content to at least 500 words with valuable, relevant information",
           "High - More content gives search engines more context about your page"))
  \o
  PushIf(keywordScore < 15,
         Recommendation("Medium", "Keyword Optimization", "Limited keyword variety",
           "Include more relevant keywords naturally throughout your content",
           "Medium - Better keyword coverage helps with various search terms"))
  \o
  PushIf(headings_count < 3,
         Recommendation("Low", "Content Structure", "Insufficient heading structure",
           "Add more H1, H2, H3 headings to structure your content better",
           "Low - Improves readability and helps search engines understand content structure"))

\* The action items pushed with the recommendations, then the general ones
\* (lines 338-390).
actionItemsOf(titleScore, metaScore, contentScore, keywordScore, headings_count, overall_score) ==
  PushIf(titleScore < 20, "Rewrite page title (30-60 characters)")
  \o PushIf(metaScore < 15, "Write compelling meta description (120-160 characters)")
  \o PushIf(contentScore < 20, "Expand content to 500+ words")
  \o PushIf(keywordScore < 15, "Research and add relevant keywords")
  \o PushIf(headings_count < 3, "Add more headings (H1, H2, H3)")
  \o (IF overall_score < 70
      THEN <<"Focus on high-priority items first",
             "Re-run analysis after making changes",
             "Schedule monthly SEO check-ups">>
      ELSE << >>)

\* A content that repeats the sentence of the template five times.
contentTextOf_FiveTimes(topic) ==
  IF Truthy(topic)
  THEN repeat(Template(ContentPrefix, topic, ContentSuffix), 5) ELSE << >>

\* A title that is the topic and the suffix of the template alone.
titleOf_NoPrefix(topic) ==
  IF Truthy(topic) THEN Template(<< >>, topic, TitleSuffix) ELSE << >>

\* For demo purposes, we'll simulate content based on the main topic
\* (lines 139-151).
titleOf(topic) ==
  IF Truthy(topic) THEN Template(TitlePrefix, topic, TitleSuffix) ELSE << >>

metaDescriptionOf(topic) ==
  IF Truthy(topic) THEN Template(MetaPrefix, topic, MetaSuffix) ELSE << >>

contentTextOf(topic) ==
  IF Truthy(topic)
  THEN repeat(Template(ContentPrefix, topic, ContentSuffix), 10) ELSE << >>

headingsOf(topic) ==
  IF Truthy(topic) THEN Template(HeadingsPrefix, topic, HeadingsSuffix) ELSE << >>

\* The result of a call: threw is TRUE when the call ends in a TypeError
\* instead of returning (text.toLowerCase() of a text that is undefined),
\* and then the other fields are not a result.
generateSEOAnalysis(websiteData, now) ==
  LET topic           == websiteData.mainTopic
      title           == titleOf(topic)
      metaDescription == metaDescriptionOf(topic)
      contentText     == contentTextOf(topic)
      headings        == headingsOf(topic)
      page_details    == [title            |-> title,
                          meta_description |-> metaDescription,
                          content_length   |-> Len(contentText),
                          reading_time     |-> calculateReadingTime(contentText),
                          headings_count   |-> headingsCount(headings)]
      titleAnalysis   == titleAnalysisOf(title)
      metaAnalysis    == metaAnalysisOf(metaDescription)
      contentAnalysis == contentAnalysisOf(contentText, page_details.reading_time)
      \* extractCleanKeywords(contentText || websiteData.mainTopic)
      keywordText     == IF Len(contentText) > 0 THEN JsString(contentText) ELSE topic
      threw           == keywordText.kind # "string"
      keywords        == IF threw THEN << >> ELSE extractCleanKeywords(keywordText.val)
      keywordAnalysis == keywordAnalysisOf(keywords)
      overall_score   == overallScoreOf(titleAnalysis.score, metaAnalysis.score,
                           contentAnalysis.score, keywordAnalysis.score,
                           page_details.headings_count)
      grade           == gradeOf(overall_score)
  IN  [threw     |-> threw,
       success   |-> ~threw,
       timestamp |-> toISOString(now),
       analysis  |->
         [overview |->
            [analysis_date |-> toISOString(now),
             website_url   |-> IF Truthy(websiteData.websiteUrl)
                               THEN websiteData.websiteUrl.val
                               ELSE <<"U","n","k","n","o","w","n">>,
             overall_score |-> overall_score,
             grade         |-> grade.grade,
             status        |-> grade.status],
          page_details |-> page_details,
          seo_factors  |->
            [title_analysis            |-> titleAnalysis,
             meta_description_analysis |-> metaAnalysis,
             content_analysis          |-> contentAnalysis,
             keyword_analysis          |-> keywordAnalysis],
          top_keywords    |-> keywords,
          recommendations |-> recommendationsOf(titleAnalysis.score, metaAnalysis.score,
                                contentAnalysis.score, keywordAnalysis.score,
                                page_details.headings_count),
          action_items    |-> actionItemsOf(titleAnalysis.score, metaAnalysis.score,
                                contentAnalysis.score, keywordAnalysis.score,
                                page_details.headings_count, overall_score)]]

----------------------------------------------------------------------------
(* The messages of the route handlers and of the errors they catch.         *)

RequiredFieldsMessage ==
  <<"W","e","b","s","i","t","e"," ","U","R","L"," ","a","n","d"," ","M","a","i","n"," ","T",
    "o","p","i","c"," ","a","r","e"," ","r","e","q","u","i","r","e","d">>

GenericErrorMessage ==
  <<"F","a","i","l","e","d"," ","t","o"," ","p","r","o","c","e","s","s"," ","S","E","O"," ",
    "a","n","a","l","y","s","i","s","."," ","P","l","e","a","s","e"," ","t","r","y"," ","a",
    "g","a","i","n"," ","l","a","t","e","r",".">>

WebhookStatusMessage ==
  <<"W","e","b","h","o","o","k"," ","r","e","s","p","o","n","d","e","d"," ","w","i","t","h",
    " ","s","t","a","t","u","s">>

InvalidWebhookResponseMessage ==
  <<"I","n","v","a","l","i","d"," ","r","e","s","p","o","n","s","e"," ","f","r","o","m"," ",
    "w","e","b","h","o","o","k"," ","s","e","r","v","i","c","e">>

UnknownErrorMessage ==
  <<"U","n","k","n","o","w","n"," ","e","r","r","o","r">>

NotSerializableMessage ==
  <<"V","a","l","u","e"," ","i","s"," ","n","o","t"," ","J","S","O","N"," ","s","e","r","i",
    "a","l","i","z","a","b","l","e">>

JsonParseMessage ==
  <<"U","n","e","x","p","e","c","t","e","d"," ","t","o","k","e","n"," ","i","n"," ","J","S",
    "O","N">>

NullPropertyMessage ==
  <<"C","a","n","n","o","t"," ","r","e","a","d"," ","p","r","o","p","e","r","t","i","e","s",
    " ","o","f"," ","n","u","l","l">>

UndefinedPropertyMessage ==
  <<"C","a","n","n","o","t"," ","r","e","a","d"," ","p","r","o","p","e","r","t","i","e","s",
    " ","o","f"," ","u","n","d","e","f","i","n","e","d">>

FetchFailedMessage ==
  <<"f","e","t","c","h"," ","f","a","i","l","e","d">>

----------------------------------------------------------------------------
(* Requests, webhook answers and responses.                                *)

\* v.name, and v?.name: undefined when v has no such property.
Get(v, name) ==
  IF v.kind = "object" /\ name \in DOMAIN v.val THEN v.val[name] ELSE JsUndefined

\* keywords.map((k) => k.keyword)
KeywordNames(list) == [i \in 1..Len(list) |-> list[i].keyword]

\* recommendations.map((r) => r.issue)
IssuesOf(list) == [i \in 1..Len(list) |-> list[i].issue]

\* recommendations.map((r) => r.solution)
SolutionsOf(list) == [i \in 1..Len(list) |-> list[i].solution]

\* The body a NextResponse.json(body, {status}) call sends, and what the
\* handler did on the way: the calls of the webhook and of
\* generateSEOAnalysis.
Outcome(status, body, webhookCalls, analysisRuns) ==
  [status |-> status, body |-> body,
   webhookCalls |-> webhookCalls, analysisRuns |-> analysisRuns]

\* The catch block of route.ts (lines 454-464).
CaughtError(message) ==
  JsObject([error   |-> JsString(GenericErrorMessage),
            details |-> JsString(message)])

\* The catch blocks of the proxy routes (part_003 lines 79-90, 124-135).
CaughtErrorStamped(message, t) ==
  JsObject([error     |-> JsString(GenericErrorMessage),
            details   |-> JsString(message),
            timestamp |-> JsString(toISOString(t))])

\* The 400 of all three handlers.
RequiredFieldsError == JsObject([error |-> JsString(RequiredFieldsMessage)])

\* !body.websiteUrl || !body.mainTopic
MissingRequiredField(body) ==
  ~Truthy(Get(body, "websiteUrl")) \/ ~Truthy(Get(body, "mainTopic"))

\* `Webhook responded with status: ${status} ${statusText}`
WebhookStatusError(upstream) ==
  WebhookStatusMessage \o <<":", " ">> \o DecimalString(upstream.status)
    \o <<" ">> \o upstream.statusText

\* response.ok taken for "a status was received".
IsOk_AnyStatus(status) == status >= 200

\* response.ok
IsOk(status) == status >= 200 /\ status <= 299

\* A success body whose long_tail_opportunities are all the top keywords.
FormatAnalysis_LongTailAll(body, analysisResult2, t) ==
  LET analysis == analysisResult2.analysis
      top_keywords == analysis.top_keywords
      contentQuality == SelectSeq(analysis.recommendations,
                                  LAMBDA r : r.category = "Content Quality")
  IN  JsArray(<<
        JsObject(
          [seo_report |-> JsObject(
             [analysis_date    |-> JsString(toISOString(t)),
              seo_score        |-> analysis.overview.overall_score,
              current_keywords |->
                KeywordNames(SubSeq(top_keywords, 1, MathMin(3, Len(top_keywords)))),
              keyword_opportunities |->
                [total_found       |-> Len(top_keywords),
                 priority_keywords |->
                   KeywordNames(SelectSeq(top_keywords, LAMBDA k : k.importance = "High")),
                 long_tail_opportunities |->
                   KeywordNames(top_keywords)],
              content_gaps |->
                [missing_topics |-> IssuesOf(contentQuality),
                 gap_count      |-> Len(contentQuality),
                 coverage_score |-> MathMin(100, analysis.overview.overall_score + 20)],
              competitor_analysis |->
                [competitors_found  |-> 3,
                 competitor_domains |->
                   <<"competitor1.com", "competitor2.com", "competitor3.com">>],
              recommendations |-> SolutionsOf(analysis.recommendations),
              next_steps      |-> analysis.action_items]),
           lead_info |-> JsObject(
             [email         |-> JsOr(Get(body, "email"), JsString(<< >>)),
              analysis_date |-> JsString(toISOString(t))]),
           detailed_analysis |-> analysis])>>)

\* The success body of route.ts (lines 416-453), from the second analysis.
FormatAnalysis(body, analysisResult2, t) ==
  LET analysis == analysisResult2.analysis
      top_keywords == analysis.top_keywords
      contentQuality == SelectSeq(analysis.recommendations,
                                  LAMBDA r : r.category = "Content Quality")
  IN  JsArray(<<
        JsObject(
          [seo_report |-> JsObject(
             [analysis_date    |-> JsString(toISOString(t)),
              seo_score        |-> analysis.overview.overall_score,
              current_keywords |->
                KeywordNames(SubSeq(top_keywords, 1, MathMin(3, Len(top_keywords)))),
              keyword_opportunities |->
                [total_found       |-> Len(top_keywords),
                 priority_keywords |->
                   KeywordNames(SelectSeq(top_keywords, LAMBDA k : k.importance = "High")),
                 long_tail_opportunities |->
                   KeywordNames(SelectSeq(top_keywords, LAMBDA k : k.importance # "High"))],
              content_gaps |->
                [missing_topics |-> IssuesOf(contentQuality),
                 gap_count      |-> Len(contentQuality),
                 coverage_score |-> MathMin(100, analysis.overview.overall_score + 20)],
              competitor_analysis |->
                [competitors_found  |-> 3,
                 competitor_domains |->
                   <<"competitor1.com", "competitor2.com", "competitor3.com">>],
              recommendations |-> SolutionsOf(analysis.recommendations),
              next_steps      |-> analysis.action_items]),
           lead_info |-> JsObject(
             [email         |-> JsOr(Get(body, "email"), JsString(<< >>)),
              analysis_date |-> JsString(toISOString(t))]),
           detailed_analysis |-> analysis])>>)

\* POST of src/app/api/analyze/route.ts: the outcomes of a request, the two
\* analyses run at the times t1 <= t2.
POST(request, t1, t2) ==
  IF ~request.parses
  THEN {Outcome(500, CaughtError(JsonParseMessage), 0, 0)}
  ELSE IF request.body.kind = "null"
  THEN {Outcome(500, CaughtError(NullPropertyMessage), 0, 0)}
  ELSE IF MissingRequiredField(request.body)
  THEN {Outcome(400, RequiredFieldsError, 0, 0)}
  ELSE LET first  == generateSEOAnalysis(request.body.val, t1)
           second == generateSEOAnalysis(request.body.val, t2)
       IN  IF first.threw
           THEN {Outcome(500, CaughtError(UndefinedPropertyMessage), 0, 1)}
           ELSE IF second.threw
           THEN {Outcome(500, CaughtError(UndefinedPropertyMessage), 0, 2)}
           ELSE {Outcome(200, FormatAnalysis(request.body, second, t2), 0, 2)}

\* analysisResult and analysisResult2 of POST (lines 411 and 414): what
\* the calls of generateSEOAnalysis returned, for the calls that were made.
AnalysesOf(request, t1, t2, runs) ==
  IF runs = 0 THEN << >>
  ELSE IF runs = 1 THEN <<generateSEOAnalysis(request.body.val, t1)>>
  ELSE <<generateSEOAnalysis(request.body.val, t1),
         generateSEOAnalysis(request.body.val, t2)>>

\* A template that copies the report of the webhook and fills in nothing.
FormatWebhookData_NoDefaults(body, webhookData, t) ==
  JsObject(
    [version      |-> JsNumber(8),
     timestamp    |-> JsString(toISOString(t)),
     request_info |-> JsObject([website_url |-> Get(body, "websiteUrl"),
                                main_topic  |-> Get(body, "mainTopic")]),
     seo_report   |-> JsOr(Get(webhookData, "seo_report"), JsObject(<< >>)),
     detailed_analysis |-> JsOr(Get(webhookData, "detailed_analysis"), JsNull)])

\* The version 8 template of the formatting proxy (part_003 lines 35-76).
FormatWebhookData(body, webhookData, t) ==
  LET currentDate == JsString(toISOString(t))
      opportunities == Get(webhookData, "keyword_opportunities")
      gaps          == Get(webhookData, "content_gaps")
      competitors   == Get(webhookData, "competitor_analysis")
      Or3(a, b, c)  == JsOr(JsOr(a, b), c)
  IN  JsObject(
        [version      |-> JsNumber(8),
         timestamp    |-> currentDate,
         request_info |-> JsObject(
           [website_url |-> Get(body, "websiteUrl"),
            main_topic  |-> Get(body, "mainTopic"),
            email       |-> JsOr(Get(body, "email"), JsNull)]),
         seo_report   |-> JsObject(
           [analysis_date    |-> JsOr(Get(webhookData, "analysis_date"), currentDate),
            seo_score        |-> Or3(Get(webhookData, "seo_score"),
                                     Get(webhookData, "score"), JsNumber(0)),
            current_keywords |-> Or3(Get(webhookData, "current_keywords"),
                                     Get(webhookData, "keywords"), JsArray(<< >>)),
            keyword_opportunities |-> JsObject(
              [total_found       |-> Or3(Get(opportunities, "total_found"),
                                         Get(webhookData, "total_keywords"), JsNumber(0)),
               priority_keywords |-> Or3(Get(opportunities, "priority_keywords"),
                                         Get(webhookData, "priority_keywords"),
                                         JsArray(<< >>)),
               long_tail_opportunities |->
                                     Or3(Get(opportunities, "long_tail_opportunities"),
                                         Get(webhookData, "long_tail_keywords"),
                                         JsArray(<< >>))]),
            content_gaps |-> JsObject(
              [missing_topics |-> Or3(Get(gaps, "missing_topics"),
                                      Get(webhookData, "missing_topics"), JsArray(<< >>)),
               gap_count      |-> Or3(Get(gaps, "gap_count"),
                                      Get(webhookData, "gap_count"), JsNumber(0)),
               coverage_score |-> Or3(Get(gaps, "coverage_score"),
                                      Get(webhookData, "coverage"), JsNumber(0))]),
            competitor_analysis |-> JsObject(
              [competitors_found  |-> Or3(Get(competitors, "competitors_found"),
                                          Get(webhookData, "competitors_count"),
                                          JsNumber(0)),
               competitor_domains |-> Or3(Get(competitors, "competitor_domains"),
                                          Get(webhookData, "competitors"),
                                          JsArray(<< >>))]),
            recommendations |-> Or3(Get(webhookData, "recommendations"),
                                    Get(webhookData, "suggested_improvements"),
                                    JsArray(<< >>)),
            next_steps      |-> Or3(Get(webhookData, "next_steps"),
                                    Get(webhookData, "action_items"), JsArray(<< >>))]),
         lead_info    |-> JsObject(
           [email         |-> JsOr(Get(body, "email"), JsString(<< >>)),
            analysis_date |-> currentDate]),
         detailed_analysis |-> JsOr(Get(webhookData, "detailed_analysis"), JsNull)])

\* POST of the formatting proxy (part_003 lines 5-91): the outcomes of a
\* request when the webhook behaves as upstream says.
POSTFormatting(request, upstream, t) ==
  IF ~request.parses
  THEN {Outcome(500, CaughtErrorStamped(JsonParseMessage, t), 0, 0)}
  ELSE IF request.body.kind = "null"
  THEN {Outcome(500, CaughtErrorStamped(NullPropertyMessage, t), 0, 0)}
  ELSE IF MissingRequiredField(request.body)
  THEN {Outcome(400, RequiredFieldsError, 0, 0)}
  ELSE IF upstream.rejects
  THEN {Outcome(500, CaughtErrorStamped(FetchFailedMessage, t), 1, 0)}
  ELSE IF ~IsOk(upstream.status)
  THEN {Outcome(500, CaughtErrorStamped(WebhookStatusError(upstream), t), 1, 0)}
  ELSE IF ~upstream.parses
  THEN {Outcome(500, CaughtErrorStamped(InvalidWebhookResponseMessage, t), 1, 0)}
  ELSE {Outcome(200, FormatWebhookData(request.body, upstream.data, t), 1, 0)}

\* Array.isArray(webhookData) ? webhookData[0] : webhookData
FirstItemOrData(webhookData) ==
  IF webhookData.kind = "array"
  THEN IF Len(webhookData.val) > 0 THEN webhookData.val[1] ELSE JsUndefined
  ELSE webhookData

\* POST of the pass-through proxy (part_003 lines 97-136). Of a value that
\* is undefined NextResponse.json either throws (the value is not JSON
\* serializable), which the handler catches, or sends an empty body: which
\* one the framework does is not decided by this repository.
POSTPassThrough(request, upstream, t) ==
  IF ~request.parses
  THEN {Outcome(500, CaughtErrorStamped(JsonParseMessage, t), 0, 0)}
  ELSE IF request.body.kind = "null"
  THEN {Outcome(500, CaughtErrorStamped(NullPropertyMessage, t), 0, 0)}
  ELSE IF MissingRequiredField(request.body)
  THEN {Outcome(400, RequiredFieldsError, 0, 0)}
  ELSE IF upstream.rejects
  THEN {Outcome(500, CaughtErrorStamped(FetchFailedMessage, t), 1, 0)}
  ELSE IF ~IsOk(upstream.status)
  THEN {Outcome(500, CaughtErrorStamped(WebhookStatusError(upstream), t), 1, 0)}
  ELSE IF ~upstream.parses
  THEN {Outcome(500, CaughtErrorStamped(JsonParseMessage, t), 1, 0)}
  ELSE LET data == FirstItemOrData(upstream.data)
       IN  IF data.kind = "undefined"
           THEN {Outcome(500, CaughtErrorStamped(NotSerializableMessage, t), 1, 0),
                 Outcome(200, JsUndefined, 1, 0)}
           ELSE {Outcome(200, data, 1, 0)}

----------------------------------------------------------------------------
(* The page of src/app/page.tsx: its messages and its validation.          *)

FillInMessage ==
  <<"P","l","e","a","s","e"," ","f","i","l","l"," ","i","n"," ","y","o","u","r"," ","w","e",
    "b","s","i","t","e"," ","U","R","L"," ","a","n","d"," ","m","a","i","n"," ","t","o","p",
    "i","c"," ","s","o"," ","w","e"," ","c","a","n"," ","h","e","l","p"," ","y","o","u"," ",
    "b","e","t","t","e","r",".">>

InvalidUrlMessage ==
  <<"T","h","a","t"," ","d","o","e","s","n","'","t"," ","l","o","o","k"," ","l","i","k","e",
    " ","a"," ","v","a","l","i","d"," ","w","e","b","s","i","t","e"," ","U","R","L","."," ",
    "T","r","y"," ","s","o","m","e","t","h","i","n","g"," ","l","i","k","e"," ","h","t","t",
    "p","s",":","/","/","e","x","a","m","p","l","e",".","c","o","m">>

InvalidEmailMessage ==
  <<"P","l","e","a","s","e"," ","c","h","e","c","k"," ","y","o","u","r"," ","e","m","a","i",
    "l"," ","a","d","d","r","e","s","s"," ","f","o","r","m","a","t",".">>

AnalysisFailedMessage ==
  <<"A","n","a","l","y","s","i","s"," ","f","a","i","l","e","d">>

UnexpectedEndOfJsonMessage ==
  <<"U","n","e","x","p","e","c","t","e","d"," ","e","n","d"," ","o","f"," ","J","S","O","N",
    " ","i","n","p","u","t">>

InvalidFormatMessage ==
  <<"I","n","v","a","l","i","d"," ","r","e","s","p","o","n","s","e"," ","f","o","r","m",
    "a","t",":"," ","M","i","s","s","i","n","g"," ","r","e","q","u","i","r","e","d"," ",
    "S","E","O"," ","r","e","p","o","r","t"," ","d","a","t","a">>

InvalidResponseFormatMessage ==
  <<"I","n","v","a","l","i","d"," ","r","e","s","p","o","n","s","e"," ","f","o","r","m",
    "a","t"," ","f","r","o","m"," ","s","e","r","v","e","r">>

FailedToFetchMessage ==
  <<"F","a","i","l","e","d"," ","t","o"," ","f","e","t","c","h">>

BadRequestText ==
  <<"B","a","d"," ","R","e","q","u","e","s","t">>

InternalServerErrorText ==
  <<"I","n","t","e","r","n","a","l"," ","S","e","r","v","e","r"," ","E","r","r","o","r">>

NotFoundText ==
  <<"N","o","t"," ","F","o","u","n","d">>

OkText ==
  <<"O","K">>

\* The schemes that need a host.
SpecialSchemes ==
  {<<"h","t","t","p">>, <<"h","t","t","p","s">>, <<"f","t","p">>,
   <<"w","s">>, <<"w","s","s">>}

SchemeCharSet == UpperSet \cup LowerSet \cup DigitSet \cup {"+", "-", "."}

\* new URL(url) does not throw: url has a scheme (a letter, then letters,
\* digits, "+", "-" or ".", up to a ":"), and after a scheme that needs a
\* host comes, past the slashes, a host without whitespace.
UrlParses(url) ==
  \E c \in 2..Len(url) :
    /\ url[c] = ":"
    /\ url[1] \in UpperSet \cup LowerSet
    /\ \A i \in 1..(c - 1) : url[i] \in SchemeCharSet
    /\ toLowerCase(SubSeq(url, 1, c - 1)) \in SpecialSchemes =>
         \E h \in (c + 1)..Len(url) :
           /\ \A i \in (c + 1)..(h - 1) : url[i] \in {"/", "\\"}
           /\ url[h] \notin {"/", "\\"}
           /\ \A i \in h..Len(url) : ~IsSpace(url[i])

\* validateUrl whose catch block returns true as well.
validateUrl_CatchReturnsTrue(url) == UrlParses(url) \/ TRUE

\* validateUrl (lines 75-82)
validateUrl(url) == UrlParses(url)

\* /^[^\s@]+@[^\s@]+\.[^\s@]+$/.test(email): the pieces before the "@",
\* from it to a ".", and after that ".", are not empty and hold neither
\* whitespace nor "@".
emailRegexTest(email) ==
  LET plain(i, j) == i <= j /\ \A k \in i..j : ~IsSpace(email[k]) /\ email[k] # "@"
  IN  \E a \in 1..Len(email) : \E d \in (a + 1)..Len(email) :
        /\ email[a] = "@"
        /\ email[d] = "."
        /\ plain(1, a - 1)
        /\ plain(a + 1, d - 1)
        /\ plain(d + 1, Len(email))

\* validateEmail (lines 84-88)
validateEmail(email) == IF Len(email) = 0 THEN TRUE ELSE emailRegexTest(email)

\* The reason phrase of a status of the route handlers.
statusText(status) ==
  CASE status = 200 -> OkText
    [] status = 400 -> BadRequestText
    [] status = 404 -> NotFoundText
    [] OTHER        -> InternalServerErrorText

\* JSON.stringify(formData), as the request the route handler receives.
RequestOf(formData) ==
  [parses |-> TRUE,
   body   |-> JsObject([websiteUrl |-> JsString(formData.websiteUrl),
                        mainTopic  |-> JsString(formData.mainTopic),
                        email      |-> JsString(formData.email)])]

\* What handleSubmit does with the response of its fetch (lines 122-139):
\* the result and the error it sets; isLoading is then set to false.
\* A response without a body makes response.json() throw, a body that is
\* null makes data.error throw, and the catch block reports both.
AfterResponse(response) ==
  IF ~IsOk(response.status)
  THEN [result |-> JsNull,
        error  |-> JsString(AnalysisFailedMessage \o <<":", " ">>
                     \o DecimalString(response.status) \o <<" ">>
                     \o statusText(response.status))]
  ELSE IF response.body.kind = "undefined"
  THEN [result |-> JsNull, error |-> JsString(UnexpectedEndOfJsonMessage)]
  ELSE IF response.body.kind = "null"
  THEN [result |-> JsNull, error |-> JsString(NullPropertyMessage)]
  ELSE IF Truthy(Get(response.body, "error"))
  THEN [result |-> JsNull, error |-> Get(response.body, "error")]
  ELSE [result |-> response.body, error |-> JsNull]

\* handleSubmit of part_000 (lines 201-224): as in page.tsx, but a body
\* without seo_report, or whose seo_report has no analysis_date, is
\* reported as an error (lines 214-217).
AfterResponseValidated(response) ==
  LET plain == AfterResponse(response)
      report == Get(response.body, "seo_report")
  IN  IF plain.error # JsNull
      THEN plain
      ELSE IF ~Truthy(report) \/ ~Truthy(Get(report, "analysis_date"))
      THEN [result |-> JsNull, error |-> JsString(InvalidFormatMessage)]
      ELSE plain

\* A response handling that keeps an object as it is and wraps nothing.
AfterResponseResults_KeepsObject(response) ==
  IF ~IsOk(response.status) \/ response.body.kind \notin {"array", "object"}
  THEN [result |-> JsNull, error |-> JsString(InvalidResponseFormatMessage)]
  ELSE [result |-> response.body, error |-> JsNull]

\* handleSubmit of part_002 (lines 185-203): results is the body when it is
\* an array and the list of the body alone when it is an object; any other
\* body is reported as an error.
AfterResponseResults(response) ==
  IF ~IsOk(response.status)
  THEN [result |-> JsNull,
        error  |-> JsString(AnalysisFailedMessage \o <<":", " ">>
                     \o DecimalString(response.status) \o <<" ">>
                     \o statusText(response.status))]
  ELSE IF response.body.kind = "undefined"
  THEN [result |-> JsNull, error |-> JsString(UnexpectedEndOfJsonMessage)]
  ELSE IF response.body.kind = "array"
  THEN [result |-> response.body, error |-> JsNull]
  ELSE IF response.body.kind = "object"
  THEN [result |-> JsArray(<<response.body>>), error |-> JsNull]
  ELSE [result |-> JsNull, error |-> JsString(InvalidResponseFormatMessage)]

\* The validation of handleSubmit (lines 95-109): the message it sets, or
\* null when the form passes.
ValidationError(formData) ==
  IF Len(formData.websiteUrl) = 0 \/ Len(formData.mainTopic) = 0
  THEN JsString(FillInMessage)
  ELSE IF ~validateUrl(formData.websiteUrl)
  THEN JsString(InvalidUrlMessage)
  ELSE IF Len(formData.email) > 0 /\ ~validateEmail(formData.email)
  THEN JsString(InvalidEmailMessage)
  ELSE JsNull

\* const seoReport = result?.seo_report (line 195)
seoReportOf(result) == Get(result, "seo_report")

\* The results section is rendered (line 372).
ResultsShown(result, error, isLoading) ==
  /\ Truthy(result)
  /\ Truthy(seoReportOf(result))
  /\ ~isLoading
  /\ ~Truthy(error)

----------------------------------------------------------------------------
(* The inputs the scorer is run on.                                        *)

\* The most copies of a unit in a topic.
MaxRep == 12

\* The shifts of the frequency pattern of a text.
MaxShift == 5

\* A topic is a number of copies of one of these: a short word, eight
\* one-letter words, eight keywords, punctuation and upper case, a number,
\* a blank, a word of the template, a property name of Object.prototype,
\* a single letter, two keywords.
Units ==
  <<<<"s","e","o"," ">>,
    <<"a"," ","b"," ","c"," ","d"," ","e"," ","f"," ","g"," ","h"," ">>,
    <<"k","e","y","w","o","r","d"," ","r","e","s","e","a","r","c","h"," ","t","o","o","l","s"," ","s","o","f","t","w","a","r","e"," ","p","r","i","c","i","n","g"," ","r","e","v","i","e","w","s"," ","t","u","t","o","r","i","a","l"," ","e","x","a","m","p","l","e","s"," ">>,
    <<"W","e","b","-","D","e","s","i","g","n",","," ">>,
    <<"2","0","2","5"," ">>,
    <<" ">>,
    <<"g","u","i","d","e"," ">>,
    <<"c","o","n","s","t","r","u","c","t","o","r"," ">>,
    <<"a">>,
    <<"k","e","y","w","o","r","d"," ","r","e","s","e","a","r","c","h"," ">>>>

Topics == {repeat(Units[u], n) : u \in 1..Len(Units), n \in 0..MaxRep}

ExampleUrl ==
  <<"h","t","t","p","s",":","/","/","e","x","a","m","p","l","e",".","c","o","m">>

\* mainTopic is a topic or is absent; websiteUrl, which the scorer only
\* copies, is absent for the two falsy topics and one other.
WebsiteDataInputs ==
  {[websiteUrl |-> JsString(ExampleUrl), mainTopic |-> t] :
     t \in {JsUndefined} \cup {JsString(s) : s \in Topics}}
  \cup
  {[websiteUrl |-> JsUndefined, mainTopic |-> t] :
     t \in {JsUndefined, JsString(<< >>), JsString(Units[1])}}

\* The words a text is made of, each with the separator that follows it.
Vocabulary ==
  <<<<"a","l","p","h","a"," ">>,
    <<"B","e","t","a",","," ">>,
    <<"t","h","e"," ">>,
    <<"g","a","m","m","a","\t">>,
    <<"s","e","o"," ">>,
    <<"d","e","l","t","a"," ">>,
    <<"A","L","P","H","A"," ">>,
    <<"e","p","s","i","l","o","n"," ">>,
    <<"2","0","2","5"," ">>,
    <<"z","e","t","a"," ">>,
    <<"t","h","e","t","a","-","i","o","t","a"," ">>,
    <<"k","a","p","p","a"," ">>,
    <<"p","n","e","u","m","o","n","o","u","l","t","r","a","m","i","c","r","o","s","c","o","p","i","c"," ">>,
    <<"l","a","m","b","d","a"," ">>,
    <<"s","i","g","m","a"," ">>,
    <<"c","o","n","s","t","r","u","c","t","o","r"," ">>,
    <<"o","m","e","g","a"," ">>,
    <<"o","m","i","c","r","o","n"," ">>,
    <<"a","1","b","2"," ">>,
    <<"u","p","s","i","l","o","n"," ">>,
    <<"d","i","g","a","m","m","a"," ">>,
    <<"k","o","p","p","a"," ">>,
    <<"s","a","m","p","i"," ">>,
    <<"l","a","m","e","d"," ">>,
    <<"s","t","i","g","m","a"," ">>>>

\* How often the i-th word of the vocabulary occurs in the text of shift r.
Occurrences(i, r) == 1 + ((3 * i + r) % 7)

\* The text of the first m words of the vocabulary, the i-th one
\* Occurrences(i, r) times.
RECURSIVE TextOf(_, _)
TextOf(m, r) ==
  IF m = 0 THEN << >>
  ELSE TextOf(m - 1, r) \o repeat(Vocabulary[m], Occurrences(m, r))

TextInputs == {TextOf(m, r) : m \in 0..Len(Vocabulary), r \in 0..MaxShift}

\* The longest title and the longest meta description that are scored on
\* their own.
MaxTitleLength == 70

MaxMetaLength == 170

\* The most the clock advances.
MaxClock == 1

\* The most requests the page sends.
MaxRequests == 2

\* The most clicks on Retry that part_000 counts.
MaxRetries == 2

ExampleEmail ==
  <<"a","@","b",".","c","o">>

\* A URL without a scheme and an address without a dot.
SchemelessUrl ==
  <<"e","x","a","m","p","l","e",".","c","o","m">>

DotlessEmail ==
  <<"a","@","b">>

\* The requests the route handlers are sent: a body that is not JSON, the
\* body null, and the objects whose three fields are each absent, empty
\* or filled in, the topic of one short word, of two keywords or of eight.
Requests ==
  {[parses |-> FALSE, body |-> JsUndefined], [parses |-> TRUE, body |-> JsNull]}
  \cup
  {[parses |-> TRUE,
    body   |-> JsObject([websiteUrl |-> u, mainTopic |-> t, email |-> e])] :
     u \in {JsUndefined, JsString(<< >>), JsString(ExampleUrl)},
     t \in {JsUndefined, JsString(<< >>), JsString(Units[1]), JsString(Units[10]),
            JsString(Units[3])},
     e \in {JsUndefined, JsString(<< >>), JsString(ExampleEmail)}}

\* A report as the page reads it.
ExampleReport ==
  JsObject(
    [seo_report |-> JsObject(
       [analysis_date    |-> JsString(toISOString(0)),
        seo_score        |-> JsNumber(72),
        current_keywords |-> JsArray(<<JsString(<<"s","e","o">>)>>),
        recommendations  |-> JsArray(<< >>)]),
     lead_info  |-> JsObject([email |-> JsString(ExampleEmail)])])

\* The same fields, flat, as the formatting proxy reads them.
FlatReport ==
  JsObject(
    [analysis_date    |-> JsString(toISOString(0)),
     seo_score        |-> JsNumber(72),
     current_keywords |-> JsArray(<<JsString(<<"s","e","o">>)>>),
     keyword_opportunities |-> JsObject(
       [total_found |-> JsNumber(2),
        priority_keywords |-> JsArray(<<JsString(<<"s","e","o">>)>>)]),
     content_gaps     |-> JsObject([gap_count |-> JsNumber(1)]),
     recommendations  |-> JsArray(<<JsString(<<"f","i","x">>)>>)])

\* The fields under their other names.
PartialReport ==
  JsObject([score |-> JsNumber(55), keywords |-> JsArray(<<JsString(<<"s","e","o">>)>>),
            competitors_count |-> JsNumber(0)])

\* What the webhook can answer in a body that parses.
WebhookData ==
  {JsNull, JsObject(<< >>), ExampleReport, FlatReport, PartialReport,
   JsObject([error |-> JsString(<<"W","o","r","k","f","l","o","w"," ","f","a","i","l","e","d">>)]),
   JsArray(<<ExampleReport>>), JsArray(<< >>)}

\* How the webhook behaves: the fetch rejects, or it answers with a status
\* and a body that parses as JSON or does not.
Upstreams ==
  {[rejects |-> TRUE, status |-> 0, statusText |-> << >>, parses |-> FALSE,
    data |-> JsUndefined]}
  \cup
  {[rejects |-> FALSE, status |-> s, statusText |-> statusText(s), parses |-> FALSE,
    data |-> JsUndefined] : s \in {200, 404, 500}}
  \cup
  {[rejects |-> FALSE, status |-> 200, statusText |-> OkText, parses |-> TRUE,
    data |-> d] : d \in WebhookData}
  \cup
  {[rejects |-> FALSE, status |-> 404, statusText |-> NotFoundText, parses |-> TRUE,
    data |-> JsObject([code |-> JsNumber(404)])]}

\* The webhook when no call reached it.
NotCalled ==
  [rejects |-> FALSE, status |-> 0, statusText |-> << >>, parses |-> FALSE,
   data |-> JsUndefined]

\* What the user types into the form.
UrlInputs == {<< >>, SchemelessUrl, ExampleUrl}

TopicInputs == {<< >>, Units[1]}

EmailInputs == {<< >>, DotlessEmail, ExampleEmail}

----------------------------------------------------------------------------
(* State. The scorer, the route handlers and the page are each run on      *)
(* their own: a specification moves the variables of one of them and       *)
(* leaves the others as they start.                                        *)

VARIABLES
  now,             \* the clock that new Date() reads
  \* the scorer
  pc,              \* "call", then "returned" or "threw"
  fn,              \* the function called
  websiteData,     \* the argument of generateSEOAnalysis
  text,            \* the argument of extractCleanKeywords
  analysisResult,  \* what generateSEOAnalysis returned
  keywords,        \* what extractCleanKeywords returned
  \* the route handlers
  route,           \* the handler that received the request
  request,         \* the request
  webhook,         \* how the webhook behaved, when the handler called it
  response,        \* the status and the body of the response
  webhookCalls,    \* the calls of the webhook made for the request
  analysisRuns,    \* the runs of generateSEOAnalysis made for the request
  analyses,        \* what these runs returned: analysisResult, analysisResult2
  \* the page
  deployed,        \* the route handler that serves /api/analyze
  variant,         \* the variant of the page that is open
  retryCount,      \* useState of part_000: the clicks on Retry
  formData,        \* useState: the three fields of the form
  isLoading,       \* useState
  result,          \* useState: the report (in part_002 results, a list), or null
  error,           \* useState: the message, or null
  inflight,        \* the requests sent to /api/analyze and not yet answered
  sent,            \* the number of requests sent
  received,        \* the response the last fetch resolved with
  event            \* the handler of the page that ran last

scorerVars == <<pc, fn, websiteData, text, analysisResult, keywords>>

serverVars == <<route, request, webhook, response, webhookCalls, analysisRuns,
               analyses>>

pageVars == <<deployed, variant, retryCount, formData, isLoading, result, error, inflight, sent,
             received, event>>

vars == <<now, scorerVars, serverVars, pageVars>>

NoWebsiteData == [websiteUrl |-> JsUndefined, mainTopic |-> JsUndefined]

NoResult == [threw |-> FALSE, success |-> FALSE]

NoRequest == [parses |-> FALSE, body |-> JsUndefined]

NoResponse == [status |-> 0, body |-> JsUndefined]

Routes == {"route.ts", "formatting proxy", "pass-through proxy"}

\* The variants of the page: src/app/page.tsx, the one of part_000, which
\* counts the retries and validates the report it receives, and the one of
\* part_002, which keeps a list of reports and has no error card.
Pages == {"page.tsx", "part_000", "part_002"}

\* No function of the scorer is called.
ScorerIdle ==
  /\ pc = "idle"
  /\ fn = "none"
  /\ websiteData = NoWebsiteData
  /\ text = << >>
  /\ analysisResult = NoResult
  /\ keywords = << >>

\* No request has reached a route handler.
ServerIdle ==
  /\ route = "none"
  /\ request = NoRequest
  /\ webhook = NotCalled
  /\ response = NoResponse
  /\ webhookCalls = 0
  /\ analysisRuns = 0
  /\ analyses = << >>

\* No page is open.
PageClosed ==
  /\ deployed = "none"
  /\ variant = "none"
  /\ retryCount = 0
  /\ formData = [websiteUrl |-> << >>, mainTopic |-> << >>, email |-> << >>]
  /\ isLoading = FALSE
  /\ result = JsNull
  /\ error = JsNull
  /\ inflight = << >>
  /\ sent = 0
  /\ received = NoResponse
  /\ event = "none"

----------------------------------------------------------------------------
(* The scorer: a call of generateSEOAnalysis or of extractCleanKeywords on *)
(* one input, and its return.                                              *)

Init ==
  /\ now = 0
  /\ pc = "call"
  /\ analysisResult = NoResult
  /\ keywords = << >>
  /\ \/ /\ fn = "generateSEOAnalysis"
        /\ websiteData \in WebsiteDataInputs
        /\ text = << >>
     \/ /\ fn = "extractCleanKeywords"
        /\ websiteData = NoWebsiteData
        /\ text \in TextInputs
  /\ ServerIdle
  /\ PageClosed

CallGenerateSEOAnalysis ==
  /\ pc = "call"
  /\ fn = "generateSEOAnalysis"
  /\ analysisResult' = generateSEOAnalysis(websiteData, now)
  /\ pc' = IF analysisResult'.threw THEN "threw" ELSE "returned"
  /\ UNCHANGED <<now, fn, websiteData, text, keywords, serverVars, pageVars>>

CallExtractCleanKeywords ==
  /\ pc = "call"
  /\ fn = "extractCleanKeywords"
  /\ keywords' = extractCleanKeywords(text)
  /\ pc' = "returned"
  /\ UNCHANGED <<now, fn, websiteData, text, analysisResult, serverVars, pageVars>>

Next == CallGenerateSEOAnalysis \/ CallExtractCleanKeywords

Spec == Init /\ [][Next]_vars

----------------------------------------------------------------------------
(* The route handlers: one request to one of the three POST handlers.      *)

InitServer ==
  /\ now = 0
  /\ ScorerIdle
  /\ ServerIdle
  /\ PageClosed

\* The handler r has answered req with the outcome o, the webhook behaving
\* as upstream says.
Responded(r, req, upstream, o) ==
  /\ route' = r
  /\ request' = req
  /\ webhook' = IF o.webhookCalls > 0 THEN upstream ELSE NotCalled
  /\ response' = [status |-> o.status, body |-> o.body]
  /\ webhookCalls' = o.webhookCalls
  /\ analysisRuns' = o.analysisRuns
  /\ UNCHANGED <<scorerVars, pageVars>>

HandlePOST ==
  /\ route = "none"
  /\ \E req \in Requests : \E t1 \in now..MaxClock : \E t2 \in t1..MaxClock :
       \E o \in POST(req, t1, t2) :
         /\ Responded("route.ts", req, NotCalled, o)
         /\ analyses' = AnalysesOf(req, t1, t2, o.analysisRuns)
         /\ now' = t2

HandlePOSTFormatting ==
  /\ route = "none"
  /\ \E req \in Requests : \E upstream \in Upstreams : \E t \in now..MaxClock :
       \E o \in POSTFormatting(req, upstream, t) :
         /\ Responded("formatting proxy", req, upstream, o)
         /\ analyses' = << >>
         /\ now' = t

HandlePOSTPassThrough ==
  /\ route = "none"
  /\ \E req \in Requests : \E upstream \in Upstreams : \E t \in now..MaxClock :
       \E o \in POSTPassThrough(req, upstream, t) :
         /\ Responded("pass-through proxy", req, upstream, o)
         /\ analyses' = << >>
         /\ now' = t

NextServer == HandlePOST \/ HandlePOSTFormatting \/ HandlePOSTPassThrough

SpecServer == InitServer /\ [][NextServer]_vars

----------------------------------------------------------------------------
(* The page of src/app/page.tsx, served by one of the route handlers.      *)

InitPage ==
  /\ now = 0
  /\ ScorerIdle
  /\ ServerIdle
  /\ deployed \in Routes
  /\ variant \in Pages
  /\ retryCount = 0
  /\ formData = [websiteUrl |-> << >>, mainTopic |-> << >>, email |-> << >>]
  /\ isLoading = FALSE
  /\ result = JsNull
  /\ error = JsNull
  /\ inflight = << >>
  /\ sent = 0
  /\ received = NoResponse
  /\ event = "none"

\* An input handler that also drops the report of the last analysis.
handleInputChange_ClearsResult(field, value) ==
  /\ ~isLoading
  /\ formData' = [formData EXCEPT ![field] = value]
  /\ error' = JsNull
  /\ result' = JsNull
  /\ event' = "handleInputChange"
  /\ UNCHANGED <<now, deployed, variant, retryCount, isLoading, inflight, sent, received,
                 scorerVars, serverVars>>

\* handleInputChange (lines 146-149); the inputs are disabled while
\* isLoading (lines 242, 258, 279).
handleInputChange(field, value) ==
  /\ ~isLoading
  /\ formData' = [formData EXCEPT ![field] = value]
  /\ error' = IF Truthy(error) THEN JsNull ELSE error
  /\ event' = "handleInputChange"
  /\ UNCHANGED retryCount
  /\ UNCHANGED <<now, deployed, variant, isLoading, result, inflight, sent, received,
                 scorerVars, serverVars>>

InputChange ==
  \/ \E value \in UrlInputs : handleInputChange("websiteUrl", value)
  \/ \E value \in TopicInputs : handleInputChange("mainTopic", value)
  \/ \E value \in EmailInputs : handleInputChange("email", value)

\* A handleSubmit that leaves the result of the last analysis in place.
handleSubmit_KeepsResult ==
  LET invalid == ValidationError(formData)
  IN  /\ result' = result
      /\ error' = invalid
      /\ IF invalid # JsNull
         THEN UNCHANGED <<isLoading, inflight, sent>>
         ELSE /\ sent < MaxRequests
              /\ isLoading' = TRUE
              /\ inflight' = Append(inflight, RequestOf(formData))
              /\ sent' = sent + 1
      /\ UNCHANGED <<now, deployed, variant, formData, received, scorerVars, serverVars>>

\* handleSubmit up to its fetch (lines 90-120): the validation, and the
\* request sent when the form passes it.
handleSubmit ==
  LET invalid == ValidationError(formData)
  IN  /\ result' = JsNull
      /\ error' = invalid
      /\ IF invalid # JsNull
         THEN UNCHANGED <<isLoading, inflight, sent>>
         ELSE /\ sent < MaxRequests
              /\ isLoading' = TRUE
              /\ inflight' = Append(inflight, RequestOf(formData))
              /\ sent' = sent + 1
      /\ UNCHANGED <<now, deployed, variant, formData, received, scorerVars, serverVars>>

\* A form whose button stays enabled while isLoading.
Submit_WhileLoading ==
  /\ handleSubmit
  /\ event' = "handleSubmit"
  /\ UNCHANGED retryCount

\* The form is submitted; its button is disabled while isLoading (line 294).
Submit ==
  /\ ~isLoading
  /\ handleSubmit
  /\ event' = "handleSubmit"
  /\ UNCHANGED retryCount

\* handleRetry (lines 142-144; part_000 lines 226-229, which counts the
\* click first), from the button of the error card, which is there when
\* error && !isLoading (line 342; part_000 line 432).
handleRetry ==
  /\ variant # "part_002"
  /\ Truthy(error)
  /\ ~isLoading
  /\ IF variant = "part_000"
     THEN retryCount < MaxRetries /\ retryCount' = retryCount + 1
     ELSE UNCHANGED retryCount
  /\ handleSubmit
  /\ event' = "handleRetry"

\* Dismiss, the other button of the error card (lines 359-365).
Dismiss ==
  /\ variant # "part_002"
  /\ Truthy(error)
  /\ ~isLoading
  /\ error' = JsNull
  /\ event' = "dismiss"
  /\ UNCHANGED retryCount
  /\ UNCHANGED <<now, deployed, variant, formData, isLoading, result, inflight, sent,
                 received, scorerVars, serverVars>>

\* The outcomes the deployed handler has for a request, the webhook
\* behaving as upstream says.
ServerOutcomes(r, req, upstream, t) ==
  CASE r = "route.ts"         -> POST(req, t, t)
    [] r = "formatting proxy" -> POSTFormatting(req, upstream, t)
    [] OTHER                  -> POSTPassThrough(req, upstream, t)

\* The rest of handleSubmit (lines 122-139): the fetch is answered, result
\* or error is set, and isLoading is set to false.
FetchAnswered ==
  /\ inflight # << >>
  /\ \E upstream \in Upstreams :
       \E o \in ServerOutcomes(deployed, Head(inflight), upstream, now) :
         LET answer == [status |-> o.status, body |-> o.body]
             after == CASE variant = "part_000" -> AfterResponseValidated(answer)
                        [] variant = "part_002" -> AfterResponseResults(answer)
                        [] OTHER -> AfterResponse(answer)
         IN  /\ request' = Head(inflight)
             /\ webhook' = IF o.webhookCalls > 0 THEN upstream ELSE NotCalled
             /\ received' = answer
             /\ result' = after.result
             /\ error' = after.error
  /\ isLoading' = FALSE
  /\ inflight' = Tail(inflight)
  /\ event' = "answered"
  /\ UNCHANGED retryCount
  /\ UNCHANGED <<now, deployed, variant, formData, sent, scorerVars>>
  /\ UNCHANGED <<route, response, webhookCalls, analysisRuns, analyses>>

\* A catch block that sends the request again when the fetch rejects.
FetchRejected_SendsAgain ==
  /\ inflight # << >>
  /\ sent < MaxRequests
  /\ error' = JsString(FailedToFetchMessage)
  /\ inflight' = Append(Tail(inflight), Head(inflight))
  /\ sent' = sent + 1
  /\ received' = NoResponse
  /\ event' = "rejected"
  /\ UNCHANGED <<now, deployed, variant, retryCount, formData, isLoading, result,
                 scorerVars, serverVars>>

\* The fetch rejects: the catch block reports it (lines 134-139).
FetchRejected ==
  /\ inflight # << >>
  /\ error' = JsString(FailedToFetchMessage)
  /\ isLoading' = FALSE
  /\ inflight' = Tail(inflight)
  /\ received' = NoResponse
  /\ event' = "rejected"
  /\ UNCHANGED retryCount
  /\ UNCHANGED <<now, deployed, variant, formData, result, sent, scorerVars, serverVars>>

NextPage ==
  InputChange \/ Submit \/ handleRetry \/ Dismiss \/ FetchAnswered \/ FetchRejected

SpecPage == InitPage /\ [][NextPage]_vars

\* The page when every fetch settles. An outstanding fetch can reject at
\* any time, and it is outstanding no longer once it is answered or has
\* rejected: weak fairness of the rejection says that no request stays
\* outstanding for ever, and leaves open which way each one settles.
SpecPageFair == SpecPage /\ WF_vars(FetchRejected)

----------------------------------------------------------------------------
(* Properties of the scorer.                                               *)

Returned == pc = "returned" /\ fn = "generateSEOAnalysis"

ReturnedKeywords == pc = "returned" /\ fn = "extractCleanKeywords"

Analysis == analysisResult.analysis

\* C1: for every topic string, the overall score of the analysis that
\* generateSEOAnalysis returns is an integer from 0 to 100.
C1_OverallScoreInRange ==
  Returned => Analysis.overview.overall_score \in 0..100

\* C1 on a topic of many words: the content has at least 1000 words.
C1_Witness ==
  /\ Returned
  /\ Analysis.seo_factors.content_analysis.word_count >= 1000
  /\ Analysis.overview.overall_score > 0

Grades == <<"F", "D", "C", "B", "A", "A+">>

\* The place of a grade in the order F < D < C < B < A < A+.
GradeRank(g) == CHOOSE i \in 1..Len(Grades) : Grades[i] = g

\* The table of the grades: each grade, by the scores that have it.
GradeByTable(score, grade) ==
  /\ grade \in {Grades[i] : i \in 1..Len(Grades)}
  /\ grade = "A+" <=> score >= 90
  /\ grade = "A"  <=> score >= 80 /\ score <= 89
  /\ grade = "B"  <=> score >= 70 /\ score <= 79
  /\ grade = "C"  <=> score >= 60 /\ score <= 69
  /\ grade = "D"  <=> score >= 50 /\ score <= 59
  /\ grade = "F"  <=> score < 50

\* C2: the grade is the one the table gives the overall score, in every
\* analysis returned and for every score from 0 to 100; so of two scores
\* the higher never has the worse grade.
C2_GradeByThresholds ==
  /\ Returned => GradeByTable(Analysis.overview.overall_score, Analysis.overview.grade)
  /\ \A s \in 0..100 : GradeByTable(s, gradeOf(s).grade)
  /\ \A s1 \in 0..100 : \A s2 \in s1..100 :
        GradeRank(gradeOf(s1).grade) <= GradeRank(gradeOf(s2).grade)

\* C2 at a threshold: an analysis of score 80, the lowest with grade A.
C2_Witness ==
  /\ Returned
  /\ Analysis.overview.overall_score = 80
  /\ Analysis.overview.grade = "A"

\* At most 15 entries, each of frequency at least 2.
CappedAndFrequent(list) ==
  /\ Len(list) <= 15
  /\ \A i \in 1..Len(list) : list[i].frequency >= 2

\* C3: the list extractCleanKeywords returns, and so top_keywords of every
\* analysis, has at most 15 entries, each of frequency at least 2.
C3_KeywordsCappedAndFrequent ==
  /\ ReturnedKeywords => CappedAndFrequent(keywords)
  /\ Returned => CappedAndFrequent(Analysis.top_keywords)

\* The words of a text that the filter of extractCleanKeywords keeps.
MeaningfulWords(t) ==
  LET words == SplitOnSpace(cleanText(t))
  IN  {words[i] : i \in {j \in 1..Len(words) : IsMeaningful(words[j])}}

\* How often a word occurs among the words of a text.
OccurrencesIn(t, word) ==
  LET words == SplitOnSpace(cleanText(t))
  IN  Cardinality({j \in 1..Len(words) : words[j] = word})

\* C3 where the cap and the filter both act: the text has more than 15
\* words that occur twice or more, and a word that occurs once.
C3_Witness ==
  /\ ReturnedKeywords
  /\ Len(keywords) = 15
  /\ Cardinality({w \in MeaningfulWords(text) : OccurrencesIn(text, w) >= 2}) > 15
  /\ \E w \in MeaningfulWords(text) : OccurrencesIn(text, w) = 1

\* The tokens of a text: its maximal runs of characters that are not
\* whitespace.
TokenCount(t) ==
  Cardinality({i \in 1..Len(t) : ~IsSpace(t[i]) /\ (i = 1 \/ IsSpace(t[i - 1]))})

\* r is a / b rounded up.
IsCeilingOf(r, a, b) == b * r >= a /\ b * (r - 1) < a

\* C4: the reading time reported in page_details and in content_analysis
\* is the word count divided by 200, rounded up, where the word count is
\* the number of whitespace-separated tokens of the content text.
C4_ReadingTimeOfTokens ==
  Returned =>
    LET content == Analysis.seo_factors.content_analysis
    IN  /\ Analysis.page_details.reading_time = content.reading_time
        /\ IsCeilingOf(content.reading_time, content.word_count, 200)
        /\ content.word_count = TokenCount(contentTextOf(websiteData.mainTopic))

\* C5: called with a topic that is empty or absent, generateSEOAnalysis
\* returns a result whose four sub-scores and overall score are 0 and
\* whose grade is F.
C5_EmptyTopicAllZero ==
  (fn = "generateSEOAnalysis" /\ pc # "call" /\ ~Truthy(websiteData.mainTopic)) =>
    /\ pc = "returned"
    /\ Analysis.seo_factors.title_analysis.score = 0
    /\ Analysis.seo_factors.meta_description_analysis.score = 0
    /\ Analysis.seo_factors.content_analysis.score = 0
    /\ Analysis.seo_factors.keyword_analysis.score = 0
    /\ Analysis.overview.overall_score = 0
    /\ Analysis.overview.grade = "F"

\* A text of a given length.
TextOfLength(n) == [i \in 1..n |-> "x"]

\* An analysis has the score and the status of the one band, of five, that
\* holds.
ByBands(bands, scores, statuses, a) ==
  /\ Cardinality({b \in 1..5 : bands[b]}) = 1
  /\ \A b \in 1..5 : bands[b] => a.score = scores[b] /\ a.status = statuses[b]

TitleBands(L) ==
  <<L = 0, 1 <= L /\ L <= 19, 20 <= L /\ L <= 29, 30 <= L /\ L <= 60, L > 60>>

TitleByBands(L, a) ==
  ByBands(TitleBands(L), <<0, 5, 15, 25, 10>>,
          <<"Missing", "Too Short", "Good", "Excellent", "Too Long">>, a)

\* C13: the score and the status of the title are those of the band its
\* length is in (0: 0 Missing; 1-19: 5 Too Short; 20-29: 15 Good; 30-60:
\* 25 Excellent; above 60: 10 Too Long), in every analysis returned and for
\* a title of every length; every length is in exactly one band.
C13_TitleByBands ==
  /\ Returned =>
       /\ Analysis.seo_factors.title_analysis.length = Len(Analysis.page_details.title)
       /\ TitleByBands(Len(Analysis.page_details.title),
                       Analysis.seo_factors.title_analysis)
  /\ \A L \in 0..MaxTitleLength : TitleByBands(L, titleAnalysisOf(TextOfLength(L)))

\* C13 at the upper end of the best band: a title of 60 characters.
C13_Witness ==
  /\ Returned
  /\ Len(Analysis.page_details.title) = 60
  /\ Analysis.seo_factors.title_analysis.status = "Excellent"

MetaBands(L) ==
  <<L = 0, 1 <= L /\ L <= 99, 100 <= L /\ L <= 119, 120 <= L /\ L <= 160, L > 160>>

MetaByBands(L, a) ==
  ByBands(MetaBands(L), <<0, 5, 12, 20, 8>>,
          <<"Missing", "Too Short", "Good", "Excellent", "Too Long">>, a)

\* C14: the score and the status of the meta description are those of the
\* band its length is in (0: 0 Missing; 1-99: 5 Too Short; 100-119: 12
\* Good; 120-160: 20 Excellent; above 160: 8 Too Long), in every analysis
\* returned and for a description of every length; every length is in
\* exactly one band.
C14_MetaByBands ==
  /\ Returned =>
       /\ Analysis.seo_factors.meta_description_analysis.length
            = Len(Analysis.page_details.meta_description)
       /\ MetaByBands(Len(Analysis.page_details.meta_description),
                      Analysis.seo_factors.meta_description_analysis)
  /\ \A L \in 0..MaxMetaLength : MetaByBands(L, metaAnalysisOf(TextOfLength(L)))

\* C14 at the lower end of the best band: a description of 120 characters.
C14_Witness ==
  /\ Returned
  /\ Len(Analysis.page_details.meta_description) = 120
  /\ Analysis.seo_factors.meta_description_analysis.status = "Excellent"

\* A text of a given number of words, a blank between two.
TextOfWords(W) == [i \in 1..(2 * W - 1) |-> IF i % 2 = 1 THEN "x" ELSE " "]

\* The score of a content by the bands of its word count.
ContentByBands(W, isEmpty, score) ==
  /\ isEmpty => score = 0
  /\ (~isEmpty /\ W >= 1000) => score = 25
  /\ (~isEmpty /\ 500 <= W /\ W <= 999) => score = 18
  /\ (~isEmpty /\ 300 <= W /\ W <= 499) => score = 12
  /\ (~isEmpty /\ W < 300) => score = 5

\* The word counts at the edges of the bands.
BandEdges == {1, 299, 300, 499, 500, 999, 1000}

\* The analyses of texts of these word counts.
ContentAtEdges ==
  {[words |-> W, analysis |-> contentAnalysisOf(TextOfWords(W), 1)] : W \in BandEdges}

\* C15: the score of the content is the one of the band of its word count
\* (1000 and more: 25; 500-999: 18; 300-499: 12; fewer, not empty: 5;
\* empty: 0), in every analysis returned and for texts at the edges of the
\* bands, and of two such texts the one of more words has no lower score.
C15_ContentByBands ==
  /\ Returned =>
       LET content == Analysis.seo_factors.content_analysis
       IN  ContentByBands(content.word_count, content.character_count = 0, content.score)
  /\ contentAnalysisOf(<< >>, 1).score = 0
  /\ LET edges == ContentAtEdges
     IN  /\ \A e \in edges :
              /\ e.analysis.word_count = e.words
              /\ ContentByBands(e.words, FALSE, e.analysis.score)
         /\ \A e1 \in edges : \A e2 \in edges :
              e1.words <= e2.words => e1.analysis.score <= e2.analysis.score

\* C15 in the third band: a content of 301 words.
C15_Witness ==
  /\ Returned
  /\ Analysis.seo_factors.content_analysis.word_count = 301
  /\ Analysis.seo_factors.content_analysis.score = 12

\* The sum of four scores and of the bonus for the headings, at most 100.
CappedSum(t, m, c, k, headings) ==
  LET sum == t + m + c + k + (IF headings > 0 THEN 10 ELSE 0)
  IN  IF sum > 100 THEN 100 ELSE sum

\* C16: the overall score is the sum of the four scores reported in
\* seo_factors and of a bonus of 10 when headings_count is above 0, capped
\* at 100: in every analysis returned, and for the lowest and the highest
\* scores of the bands with and without headings.
C16_OverallIsCappedSum ==
  /\ Returned =>
       Analysis.overview.overall_score
         = CappedSum(Analysis.seo_factors.title_analysis.score,
                     Analysis.seo_factors.meta_description_analysis.score,
                     Analysis.seo_factors.content_analysis.score,
                     Analysis.seo_factors.keyword_analysis.score,
                     Analysis.page_details.headings_count)
  /\ \A t \in {0, 15, 25} : \A m \in {0, 20} : \A c \in {0, 25} : \A k \in {0, 20} :
       \A h \in {0, 1, 8} :
         overallScoreOf(t, m, c, k, h) = CappedSum(t, m, c, k, h)

\* C16 with the bonus: an analysis with headings, whose overall score is
\* 10 above the sum of its four scores.
C16_Witness ==
  /\ Returned
  /\ Analysis.page_details.headings_count > 0
  /\ Analysis.overview.overall_score
       = Analysis.seo_factors.title_analysis.score
         + Analysis.seo_factors.meta_description_analysis.score
         + Analysis.seo_factors.content_analysis.score
         + Analysis.seo_factors.keyword_analysis.score + 10

\* The five recommendations in their order, each with its condition.
FiveRecommendations(t, m, c, k, headings) ==
  <<[priority |-> "High",   category |-> "Title Optimization",   on |-> t < 20],
    [priority |-> "High",   category |-> "Meta Description",     on |-> m < 15],
    [priority |-> "Medium", category |-> "Content Quality",      on |-> c < 20],
    [priority |-> "Medium", category |-> "Keyword Optimization", on |-> k < 15],
    [priority |-> "Low",    category |-> "Content Structure",    on |-> headings < 3]>>

\* The priority and the category of each entry of a list.
Headed(list) == [i \in 1..Len(list) |-> <<list[i].priority, list[i].category>>]

PriorityRank(priority) ==
  CASE priority = "High" -> 3 [] priority = "Medium" -> 2 [] priority = "Low" -> 1

\* A list is the sublist of the five recommendations whose condition
\* holds, and its priorities never increase.
IsSublistOfFive(list, t, m, c, k, headings) ==
  /\ Headed(list) = Headed(SelectSeq(FiveRecommendations(t, m, c, k, headings),
                                     LAMBDA r : r.on))
  /\ \A i \in 1..Len(list) : \A j \in i..Len(list) :
       PriorityRank(list[i].priority) >= PriorityRank(list[j].priority)

\* C17: the recommendations are the sublist, in their order, of the five
\* recommendations whose condition holds (title below 20, meta below 15,
\* content below 20, keywords below 15, fewer than 3 headings), in every
\* analysis returned and for the scores and the numbers of headings next to
\* each threshold; so the priorities never increase along the list.
C17_RecommendationsByThreshold ==
  /\ Returned =>
       IsSublistOfFive(Analysis.recommendations,
                       Analysis.seo_factors.title_analysis.score,
                       Analysis.seo_factors.meta_description_analysis.score,
                       Analysis.seo_factors.content_analysis.score,
                       Analysis.seo_factors.keyword_analysis.score,
                       Analysis.page_details.headings_count)
  /\ \A t \in {15, 25} : \A m \in {12, 20} : \A c \in {18, 25} : \A k \in {12, 20} :
       \A h \in {2, 3} :
         IsSublistOfFive(recommendationsOf(t, m, c, k, h), t, m, c, k, h)

\* C17 where some recommendations are emitted and others are not: a title
\* of score 25 and a content of score 5, so the list starts at a Medium.
C17_Witness ==
  /\ Returned
  /\ Analysis.seo_factors.title_analysis.score = 25
  /\ Analysis.seo_factors.content_analysis.score = 5
  /\ Len(Analysis.recommendations) >= 1
  /\ Analysis.recommendations[1].category # "Title Optimization"

\* The positions of a text where a maximal run of word characters starts.
RunStarts(t) ==
  {i \in 1..Len(t) : IsWordChar(t[i]) /\ (i = 1 \/ ~IsWordChar(t[i - 1]))}

\* The position where the run of word characters that starts at i ends.
RunEnd(t, i) ==
  CHOOSE j \in i..Len(t) :
    /\ j = Len(t) \/ ~IsWordChar(t[j + 1])
    /\ \A k \in i..j : IsWordChar(t[k])

\* The word of the run that starts at i, in lower case.
WordAt(t, i) == toLowerCase(SubSeq(t, i, RunEnd(t, i)))

HasNoUpperCase(word) == \A i \in 1..Len(word) : word[i] \notin UpperSet

AllDigits(word) == \A i \in 1..Len(word) : word[i] \in DigitSet

\* Every entry of the list is a word of the text, of 4 to 19 characters, in
\* lower case, no stop word and not all digits, and its frequency is the
\* number of runs of the text that spell it.
WordsOfTheInput(list, t) ==
  LET starts == RunStarts(t)
  IN  \A n \in 1..Len(list) :
        LET word == list[n].keyword
        IN  /\ HasNoUpperCase(word)
            /\ Len(word) \in 4..19
            /\ word \notin stopWords
            /\ ~AllDigits(word)
            /\ list[n].frequency >= 1
            /\ list[n].frequency = Cardinality({i \in starts : WordAt(t, i) = word})

\* C18: every keyword extractCleanKeywords returns is a lower-case word of
\* the input with its punctuation stripped, has 4 to 19 characters, is no
\* stop word and not purely digits, and its frequency is the number of times
\* the word occurs in the cleaned input.
C18_KeywordsAreWordsOfTheInput ==
  ReturnedKeywords => WordsOfTheInput(keywords, text)

\* C18 where the cleaning acts: "Beta," is returned as "beta", "alpha" counts
\* the occurrences of "ALPHA" too, and the text holds a stop word, a word of
\* three letters and a number, none of which is returned.
C18_Witness ==
  /\ ReturnedKeywords
  /\ \E n \in 1..Len(keywords) : keywords[n].keyword = <<"b", "e", "t", "a">>
  /\ \E n \in 1..Len(keywords) :
       /\ keywords[n].keyword = <<"a", "l", "p", "h", "a">>
       /\ keywords[n].frequency > Cardinality({i \in RunStarts(text) : SubSeq(text, i, RunEnd(text, i)) = <<"a", "l", "p", "h", "a">>})
  /\ \E i \in RunStarts(text) : WordAt(text, i) = <<"t", "h", "e">>
  /\ \E i \in RunStarts(text) : WordAt(text, i) = <<"s", "e", "o">>
  /\ \E i \in RunStarts(text) : WordAt(text, i) = <<"2", "0", "2", "5">>

\* How often a word occurs among the lower-cased runs of a text.
CountOf(t, word) == Cardinality({i \in RunStarts(t) : WordAt(t, i) = word})

\* The words of a text that qualify as keywords: 4 to 19 characters, no stop
\* word, not all digits, occurring at least twice.
Qualifying(t) ==
  LET starts == RunStarts(t)
      words == {WordAt(t, i) : i \in starts}
  IN  {w \in words : /\ Len(w) \in 4..19
                     /\ w \notin stopWords
                     /\ ~AllDigits(w)
                     /\ Cardinality({i \in starts : WordAt(t, i) = w}) >= 2}

\* The list is sorted by non-increasing frequency and is the top of the
\* ranking of the qualifying words of the text.
IsTopOfRanking(list, t) ==
  LET qualifying == Qualifying(t)
      returned == {list[n].keyword : n \in 1..Len(list)}
  IN  /\ \A n \in 1..Len(list) : \A m \in n..Len(list) :
           list[n].frequency >= list[m].frequency
      /\ Cardinality(qualifying) > 15 =>
           \A w \in qualifying \ returned : \A n \in 1..Len(list) :
             CountOf(t, w) <= list[n].frequency
      /\ Cardinality(qualifying) <= 15 => qualifying \subseteq returned

\* C19: the list extractCleanKeywords returns is sorted by non-increasing
\* frequency and is the top of the ranking: with more than 15 qualifying
\* words no omitted one is more frequent than a returned one, and with at
\* most 15 all of them are returned.
C19_TopOfTheRanking ==
  ReturnedKeywords => IsTopOfRanking(keywords, text)

\* Every entry of the list carries the tag of its frequency.
TaggedByFrequency(list) ==
  \A n \in 1..Len(list) :
    LET f == list[n].frequency
        tag == list[n].importance
    IN  /\ tag \in {"High", "Medium", "Low"}
        /\ tag = "High" <=> f > 5
        /\ tag = "Medium" <=> (4 <= f /\ f <= 5)
        /\ tag = "Low" <=> (2 <= f /\ f <= 3)

\* C20: every keyword extractCleanKeywords returns is tagged by its
\* frequency f: "High" iff f > 5, "Medium" iff 4 <= f <= 5, "Low" iff
\* 2 <= f <= 3, and no other tag occurs.
C20_ImportanceByFrequency ==
  /\ ReturnedKeywords => TaggedByFrequency(keywords)
  /\ Returned => TaggedByFrequency(Analysis.top_keywords)

\* C20 at the edges of the three tags: the list holds keywords of frequency
\* 2, 3, 4, 5 and 6.
C20_Witness ==
  /\ ReturnedKeywords
  /\ \A f \in 2..6 : \E n \in 1..Len(keywords) : keywords[n].frequency = f
  /\ \A tag \in {"High", "Medium", "Low"} :
       \E n \in 1..Len(keywords) : keywords[n].importance = tag

----------------------------------------------------------------------------
(* Properties of the route handlers.                                       *)

Proxies == {"formatting proxy", "pass-through proxy"}

\* The body is an object with an error field.
HasErrorField(body) == body.kind = "object" /\ "error" \in DOMAIN body.val

\* The body is a report: an object, or an array containing one.
IsReport(body) ==
  \/ body.kind = "object"
  \/ body.kind = "array" /\ \E i \in 1..Len(body.val) : body.val[i].kind = "object"

\* The body has a property of this name, and it is not empty.
Has(body, name) ==
  /\ body.kind = "object"
  /\ name \in DOMAIN body.val
  /\ body.val[name] \notin {JsUndefined, JsNull, JsString(<< >>)}

\* C6: for every request body in which websiteUrl or mainTopic is missing
\* or empty, each handler responds with status 400 and a body with an error
\* field, and has run neither generateSEOAnalysis nor called the webhook.
C6_MissingFieldRejectedFirst ==
  (route # "none" /\ request.parses
     /\ (~Has(request.body, "websiteUrl") \/ ~Has(request.body, "mainTopic"))) =>
    /\ response.status = 400
    /\ HasErrorField(response.body)
    /\ analysisRuns = 0
    /\ webhookCalls = 0

\* C7: in the proxy handlers a request that passes the check of the
\* required fields calls the webhook exactly once; when the webhook answers
\* with a status that is not OK, or with a body that is not JSON, the
\* response has status 500 and the generic error message.
C7_WebhookOnceAndFailuresAre500 ==
  (route \in Proxies /\ request.parses
     /\ Has(request.body, "websiteUrl") /\ Has(request.body, "mainTopic")) =>
    /\ webhookCalls = 1
    /\ (~webhook.rejects /\ (webhook.status \notin 200..299 \/ ~webhook.parses)) =>
         /\ response.status = 500
         /\ Get(response.body, "error") = JsString(GenericErrorMessage)

\* C7 on a webhook that answers 404 with a body that is JSON.
C7_Witness ==
  /\ route \in Proxies
  /\ webhookCalls = 1
  /\ ~webhook.rejects
  /\ webhook.status = 404
  /\ webhook.parses
  /\ response.status = 500

\* C8: every response is exactly one of a 2xx whose body is a report (an
\* object, or an array containing one) without an error field, and a 400 or
\* 500 whose body has an error field.
C8_ReportOrError ==
  route # "none" =>
    \/ /\ response.status \in 200..299
       /\ IsReport(response.body)
       /\ ~HasErrorField(response.body)
    \/ response.status \in {400, 500} /\ HasErrorField(response.body)

\* The object has every one of the fields, none of them undefined.
HasFields(object, fields) ==
  /\ object.kind = "object"
  /\ fields \subseteq DOMAIN object.val
  /\ \A f \in fields : object.val[f].kind # "undefined"

\* The body has every field of the report.
HasEveryReportField(body) ==
  /\ HasFields(body, {"seo_report", "detailed_analysis"})
  /\ HasFields(body.val.seo_report,
               {"analysis_date", "seo_score", "current_keywords", "keyword_opportunities",
                "content_gaps", "competitor_analysis", "recommendations", "next_steps"})
  /\ HasFields(body.val.seo_report.val.keyword_opportunities,
               {"total_found", "priority_keywords", "long_tail_opportunities"})
  /\ HasFields(body.val.seo_report.val.content_gaps,
               {"missing_topics", "gap_count", "coverage_score"})
  /\ HasFields(body.val.seo_report.val.competitor_analysis,
               {"competitors_found", "competitor_domains"})

\* The webhook's data gives no value for a field: none that is truthy under
\* its name, in its group when it has one, nor under its other name.
Absent(data, group, name, other) ==
  /\ ~Truthy(Get(IF group = "" THEN data ELSE Get(data, group), name))
  /\ ~Truthy(Get(data, other))

\* Every field the webhook's data gives no value for has its default.
DefaultsFilled(data, body, t) ==
  LET report == body.val.seo_report.val
      zero == JsNumber(0)
      empty == JsArray(<< >>)
  IN  /\ Absent(data, "", "analysis_date", "analysis_date") =>
           report.analysis_date = JsString(toISOString(t))
      /\ Absent(data, "", "seo_score", "score") => report.seo_score = zero
      /\ Absent(data, "", "current_keywords", "keywords") => report.current_keywords = empty
      /\ Absent(data, "keyword_opportunities", "total_found", "total_keywords") =>
           report.keyword_opportunities.val.total_found = zero
      /\ Absent(data, "keyword_opportunities", "priority_keywords", "priority_keywords") =>
           report.keyword_opportunities.val.priority_keywords = empty
      /\ Absent(data, "keyword_opportunities", "long_tail_opportunities", "long_tail_keywords") =>
           report.keyword_opportunities.val.long_tail_opportunities = empty
      /\ Absent(data, "content_gaps", "missing_topics", "missing_topics") =>
           report.content_gaps.val.missing_topics = empty
      /\ Absent(data, "content_gaps", "gap_count", "gap_count") =>
           report.content_gaps.val.gap_count = zero
      /\ Absent(data, "content_gaps", "coverage_score", "coverage") =>
           report.content_gaps.val.coverage_score = zero
      /\ Absent(data, "competitor_analysis", "competitors_found", "competitors_count") =>
           report.competitor_analysis.val.competitors_found = zero
      /\ Absent(data, "competitor_analysis", "competitor_domains", "competitors") =>
           report.competitor_analysis.val.competitor_domains = empty
      /\ Absent(data, "", "recommendations", "suggested_improvements") =>
           report.recommendations = empty
      /\ Absent(data, "", "next_steps", "action_items") => report.next_steps = empty
      /\ Absent(data, "", "detailed_analysis", "detailed_analysis") =>
           body.val.detailed_analysis = JsNull

\* C21: every 200 response of the formatting proxy has every field of the
\* report whatever the webhook returned, null, an empty object and an object
\* with only some fields included: the counts and scores the webhook gives
\* no value for are 0, the lists are empty, analysis_date is the current
\* time and detailed_analysis is null.
C21_EveryFieldDefaulted ==
  (route = "formatting proxy" /\ response.status = 200) =>
    /\ HasEveryReportField(response.body)
    /\ DefaultsFilled(webhook.data, response.body, now)
    /\ (webhook.data.kind = "null" \/ webhook.data = JsObject(<< >>)) =>
         /\ response.body.val.seo_report.val.seo_score.val = 0
         /\ response.body.val.seo_report.val.next_steps.val = << >>
         /\ response.body.val.seo_report.val.content_gaps.val.coverage_score.val = 0

\* C21 on a webhook that answers with some fields only: the score it gave is
\* kept and the fields it left out are filled in.
C21_Witness ==
  /\ route = "formatting proxy"
  /\ response.status = 200
  /\ webhook.data.kind = "object"
  /\ DOMAIN webhook.data.val = {"score", "keywords", "competitors_count"}
  /\ response.body.val.seo_report.val.seo_score.val = 55
  /\ response.body.val.seo_report.val.content_gaps.val.gap_count.val = 0
  /\ response.body.val.detailed_analysis.kind = "null"

----------------------------------------------------------------------------
(* Properties of the page.                                                 *)

\* The messages of the validation.
ValidationMessages ==
  {JsString(FillInMessage), JsString(InvalidUrlMessage), JsString(InvalidEmailMessage)}

\* The form is one the validation is to block.
Blocked(f) ==
  \/ f.websiteUrl = << >>
  \/ f.mainTopic = << >>
  \/ ~UrlParses(f.websiteUrl)
  \/ f.email # << >> /\ ~emailRegexTest(f.email)

\* A step of handleSubmit, from the form or from the Retry button.
SubmitStep == event' \in {"handleSubmit", "handleRetry"} /\ ~isLoading

\* C9: when route.ts answers a submission of the page with its success
\* body, handleSubmit leaves result non-null with result.seo_report
\* defined, error null and isLoading false.
C9_ReportRendered ==
  [][(variant = "page.tsx" /\ deployed = "route.ts" /\ event' = "answered"
        /\ received'.status = 200) =>
       /\ result' # JsNull
       /\ seoReportOf(result') # JsUndefined
       /\ error' = JsNull
       /\ isLoading' = FALSE]_vars

\* C10: a submission of a form with an empty URL or topic, a URL that does
\* not parse, or an email that is not empty and does not match, sets error
\* to a message, sends no request and leaves isLoading false; a form that
\* is well-formed but for its empty email is sent.
C10_ValidationBlocks ==
  [][/\ (SubmitStep /\ Blocked(formData)) =>
          /\ error' \in ValidationMessages
          /\ sent' = sent
          /\ inflight' = inflight
          /\ isLoading' = FALSE
     /\ (SubmitStep /\ formData.email = << >>
            /\ formData.websiteUrl # << >> /\ formData.mainTopic # << >>
            /\ UrlParses(formData.websiteUrl)) =>
          /\ error' = JsNull
          /\ sent' = sent + 1
          /\ inflight' = Append(inflight, RequestOf(formData))]_vars

\* C10 on an email without a dot: the submission was blocked with the
\* message of the email, and nothing was sent.
C10_Witness ==
  /\ event \in {"handleSubmit", "handleRetry"}
  /\ formData.email = DotlessEmail
  /\ error = JsString(InvalidEmailMessage)
  /\ ~isLoading
  /\ sent = 0

\* C11: a request is sent only by a step of handleSubmit, from the form or
\* from the Retry button, and such a step sends one request; a step in
\* which a fetch is answered or rejects sends none, so after a failed
\* request nothing is sent until the user acts.
C11_NoRetryOnItsOwn ==
  [][/\ (sent' # sent \/ Len(inflight') > Len(inflight)) =>
          /\ event' \in {"handleSubmit", "handleRetry"}
          /\ sent' = sent + 1
          /\ inflight' = Append(inflight, RequestOf(formData))
     /\ event' \in {"answered", "rejected"} =>
          /\ sent' = sent
          /\ inflight' = Tail(inflight)
     /\ event' \in {"handleInputChange", "dismiss"} =>
          /\ sent' = sent
          /\ inflight' = inflight]_vars

\* C11 after a failed request and a click on Retry: the second request is
\* the one the click sent.
C11_Witness ==
  /\ event = "handleRetry"
  /\ sent = 2
  /\ Len(inflight) = 1
  /\ isLoading

\* The list of reports a body stands for: the body itself when it is an
\* array, the body alone when it is an object.
ReportsOf(body) == IF body.kind = "array" THEN body.val ELSE <<body>>

\* C22: the two shapes of a response are handled as the same report: the
\* page of part_002 ends with results = [R] for the body R, an object, and
\* for the body [R]; the pass-through proxy returns the first element when
\* the webhook answers with an array, and the body unchanged when it answers
\* with an object.
C22_BothShapesOneReport ==
  /\ (variant = "part_002" /\ event = "answered" /\ received.status \in 200..299
        /\ received.body.kind \in {"array", "object"}) =>
       /\ result.kind = "array"
       /\ result.val = ReportsOf(received.body)
       /\ error = JsNull
       /\ ~isLoading
  /\ (deployed = "pass-through proxy" /\ event = "answered" /\ ~webhook.rejects
        /\ webhook.status \in 200..299 /\ webhook.parses) =>
       /\ (webhook.data.kind = "array" /\ Len(webhook.data.val) > 0) =>
            received = [status |-> 200, body |-> webhook.data.val[1]]
       /\ webhook.data.kind = "object" =>
            received = [status |-> 200, body |-> webhook.data]

\* C22 on a webhook that answers with the array of one report: the proxy
\* returned the report, an object, and the page of part_002 holds the list
\* of it, which is the array the webhook sent.
C22_Witness ==
  /\ variant = "part_002"
  /\ deployed = "pass-through proxy"
  /\ event = "answered"
  /\ webhook.data.kind = "array"
  /\ Len(webhook.data.val) = 1
  /\ received.body.kind = "object"
  /\ result = webhook.data

\* C23: in every state of the page, after any sequence of edits, submits,
\* retries, dismissals and answers of the server, result and error are not
\* both non-null.
C23_NotResultAndError == ~(result # JsNull /\ error # JsNull)

\* C23 after a failed request, a retry that succeeded and an edit: the
\* result of the second request is there and the error is gone.
C23_Witness ==
  /\ variant \in {"page.tsx", "part_000"}
  /\ sent = 2
  /\ event = "handleInputChange"
  /\ result # JsNull
  /\ error = JsNull
  /\ retryCount = IF variant = "part_000" THEN 1 ELSE 0

\* C24: isLoading is true exactly while a request sent by handleSubmit is
\* outstanding; when the fetch settles isLoading is false and exactly one of
\* result and error is non-null, error if the fetch rejected, the status was
\* not OK or the body had an error field, and result otherwise; and every
\* submission that passed the validation reaches such a state.
C24_LoadingUntilSettled ==
  /\ [](variant = "page.tsx" => (isLoading <=> inflight # << >>))
  /\ [][(variant = "page.tsx" /\ event' \in {"answered", "rejected"}) =>
          /\ ~isLoading'
          /\ IF \/ event' = "rejected"
                \/ received'.status \notin 200..299
                \/ HasErrorField(received'.body)
             THEN error' # JsNull /\ result' = JsNull
             ELSE result' # JsNull /\ error' = JsNull]_vars
  /\ (variant = "page.tsx" /\ isLoading) ~>
       (~isLoading /\ ((result # JsNull) # (error # JsNull)))

\* C25: at most one request to /api/analyze is outstanding at any time:
\* while isLoading is true no handleSubmit starts, from the form or from
\* the Retry button, and no input is edited; the only steps are those in
\* which the outstanding fetch settles.
C25_OneRequestOutstanding ==
  /\ [](Len(inflight) <= 1)
  /\ [][isLoading =>
          /\ event' \in {"answered", "rejected"}
          /\ sent' = sent
          /\ inflight' = << >>
          /\ formData' = formData]_vars

\* C25 on a second submission of the form: it was made after the first
\* request had been answered, and it is the only one outstanding.
C25_Witness ==
  /\ variant = "page.tsx"
  /\ event = "handleSubmit"
  /\ isLoading
  /\ sent = 2
  /\ inflight = <<RequestOf(formData)>>
  /\ received # NoResponse

\* C26: whenever the results section is displayed, the website URL and the
\* main topic shown with the report are those of the request that produced
\* the result, also after the user has edited the form.
C26_ShownInputsAreThoseSent ==
  (variant = "page.tsx" /\ ResultsShown(result, error, isLoading)) =>
    /\ JsString(formData.websiteUrl) = Get(request.body, "websiteUrl")
    /\ JsString(formData.mainTopic) = Get(request.body, "mainTopic")

\* The form after the step differs from the form before in at most one
\* field.
OneFieldChanged ==
  \E field \in {"websiteUrl", "mainTopic", "email"} :
    formData' = [formData EXCEPT ![field] = formData'[field]]

\* C27: handleInputChange(field, value) changes only formData[field] and
\* clears error: it leaves the other two fields, result and isLoading
\* unchanged and sends no request. Dismiss sets error to null and leaves
\* formData, result and isLoading unchanged.
C27_EditAndDismissFrames ==
  [][/\ event' = "handleInputChange" =>
          /\ OneFieldChanged
          /\ error' = JsNull
          /\ result' = result
          /\ isLoading' = isLoading
          /\ sent' = sent
          /\ inflight' = inflight
     /\ event' = "dismiss" =>
          /\ error # JsNull
          /\ error' = JsNull
          /\ formData' = formData
          /\ result' = result
          /\ isLoading' = isLoading
          /\ sent' = sent
          /\ inflight' = inflight]_vars

\* C27 after an analysis, an edit and a dismissal: the topic of the form is
\* no longer the one that was sent, and the error of a later submission that
\* the validation blocked was dismissed.
C27_Witness ==
  /\ variant = "page.tsx"
  /\ event = "dismiss"
  /\ sent = 1
  /\ received.status = 200
  /\ JsString(formData.mainTopic) # Get(request.body, "mainTopic")
  /\ error = JsNull
  /\ ~isLoading

----------------------------------------------------------------------------
(* Properties of the scorer within POST.                                   *)

\* C12: generateSEOAnalysis is a function of its input alone: the two calls
\* that POST makes with one body return results that are identical in
\* every field.
C12_SameInputSameResult ==
  (route = "route.ts" /\ Len(analyses) = 2) => analyses[1] = analyses[2]

\* How often a keyword occurs in a list of keywords.
TimesIn(list, keyword) == Cardinality({j \in 1..Len(list) : list[j] = keyword})

\* The two lists partition the top keywords by importance, total_found is
\* the sum of their lengths, and current is the first three top keywords, or
\* all of them when there are fewer.
PartitionsTopKeywords(top, priority, longTail, total_found, current) ==
  /\ \A i \in 1..Len(top) :
       /\ TimesIn(priority, top[i].keyword) + TimesIn(longTail, top[i].keyword) = 1
       /\ TimesIn(priority, top[i].keyword) = 1 <=> top[i].importance = "High"
  /\ total_found = Len(priority) + Len(longTail)
  /\ total_found = Len(top)
  /\ Len(current) = IF total_found < 3 THEN total_found ELSE 3
  /\ \A i \in 1..Len(current) : current[i] = top[i].keyword

\* C28: in every success response of POST in route.ts priority_keywords and
\* long_tail_opportunities partition the top keywords: every keyword of
\* detailed_analysis.top_keywords is in exactly one of the two lists, in
\* priority_keywords iff its importance is "High"; total_found is the sum of
\* their lengths, and current_keywords is the first min(3, total_found) top
\* keywords.
C28_KeywordListsPartition ==
  (route = "route.ts" /\ response.status = 200) =>
    LET item == response.body.val[1].val
        report == item.seo_report.val
    IN  PartitionsTopKeywords(item.detailed_analysis.top_keywords,
                              report.keyword_opportunities.priority_keywords,
                              report.keyword_opportunities.long_tail_opportunities,
                              report.keyword_opportunities.total_found,
                              report.current_keywords)

\* C28 on a response with more than three top keywords: current_keywords is
\* a proper prefix of them, and priority_keywords is not empty.
C28_Witness ==
  /\ route = "route.ts"
  /\ response.status = 200
  /\ response.body.val[1].val.seo_report.val.keyword_opportunities.total_found > 3
  /\ Len(response.body.val[1].val.seo_report.val.current_keywords) = 3
  /\ Len(response.body.val[1].val.seo_report.val.keyword_opportunities.priority_keywords) > 0

\* C29: for every non-empty topic the fabricated title has |topic| + 20
\* characters and the fabricated meta description |topic| + 103, so in every
\* success response of POST in route.ts the status of the title and that of
\* the meta description are never "Missing" or "Too Short": the title score
\* is 10, 15 or 25 and the meta score 8, 12 or 20.
C29_NeverMissingOrTooShort ==
  (route = "route.ts" /\ response.status = 200) =>
    LET topic == request.body.val.mainTopic.val
        details == response.body.val[1].val.detailed_analysis
        title == details.seo_factors.title_analysis
        meta == details.seo_factors.meta_description_analysis
    IN  /\ Len(topic) > 0
        /\ Len(details.page_details.title) = Len(topic) + 20
        /\ title.length = Len(topic) + 20
        /\ Len(details.page_details.meta_description) = Len(topic) + 103
        /\ meta.length = Len(topic) + 103
        /\ title.status \notin {"Missing", "Too Short"}
        /\ meta.status \notin {"Missing", "Too Short"}
        /\ title.score \in {10, 15, 25}
        /\ meta.score \in {8, 12, 20}

\* C29 on the shortest topic of the requests: a title of 24 characters,
\* which is "Good", and a meta description of 107.
C29_Witness ==
  /\ route = "route.ts"
  /\ response.status = 200
  /\ Len(request.body.val.mainTopic.val) = 4
  /\ response.body.val[1].val.detailed_analysis.seo_factors.title_analysis.status = "Good"
  /\ response.body.val[1].val.detailed_analysis.seo_factors.meta_description_analysis.score = 12

\* C30: for every non-empty topic every keyword extracted from the
\* fabricated content, the sentence of the template ten times over, has a
\* frequency of at least 10 and the importance "High", and at least 8
\* keywords are found; so in every success response of POST in route.ts
\* long_tail_opportunities is empty, priority_keywords lists all the top
\* keywords, and the keyword score is 12 or 20.
C30_AllKeywordsHigh ==
  (route = "route.ts" /\ response.status = 200) =>
    LET item == response.body.val[1].val
        top == item.detailed_analysis.top_keywords
        opportunities == item.seo_report.val.keyword_opportunities
    IN  /\ \A i \in 1..Len(top) : top[i].frequency >= 10 /\ top[i].importance = "High"
        /\ Len(top) >= 8
        /\ opportunities.long_tail_opportunities = << >>
        /\ opportunities.priority_keywords = [i \in 1..Len(top) |-> top[i].keyword]
        /\ item.detailed_analysis.seo_factors.keyword_analysis.score \in {12, 20}

\* C30 on a topic that adds no keyword: the eight keywords of the template,
\* ten times each, and a keyword score of 12.
C30_Witness ==
  /\ route = "route.ts"
  /\ response.status = 200
  /\ Len(response.body.val[1].val.detailed_analysis.top_keywords) = 8
  /\ response.body.val[1].val.detailed_analysis.top_keywords[8].frequency = 10
  /\ response.body.val[1].val.detailed_analysis.seo_factors.keyword_analysis.score = 12

====
